---- MODULE Spec2Model ----
(***************************************************************************)
(* The TLS hello extension registry and dispatch engine of                 *)
(* lib/extensions.c: the built-in table extfunc, the per-session overlay   *)
(* rexts, the advertisement bitset used_exts, the session data table       *)
(* ext_data, and the operations gnutls_ext_register,                       *)
(* gnutls_session_ext_register, _gnutls_parse_extensions and               *)
(* _gnutls_gen_extensions.                                                 *)
(***************************************************************************)
EXTENDS Integers, Sequences, FiniteSets, TLC

(* ---------------------------- bounds ----------------------------------- *)
\* longest inbound extension block, in TLVs
MaxTLVs == 2
\* largest session overlay the model lets a session build
MaxRexts == 1
\* number of send_func invocations of one emit whose outcome is an input
MaxSends == 1

(* ------------------- sizes of gnutls_int.h (scaled) -------------------- *)
\* first value after the last static internal id (extensions_t)
GNUTLS_EXTENSION_MAX == 3
\* highest bit index of used_exts
GNUTLS_EXTENSION_MAX_VALUE == 5
\* capacity of ext_data; extfunc has MAX_EXT_TYPES+1 entries
MAX_EXT_TYPES == 6

(* ----------------------------- vocabulary ------------------------------ *)
GNUTLS_CLIENT == "GNUTLS_CLIENT"
GNUTLS_SERVER == "GNUTLS_SERVER"

GNUTLS_EXT_ANY == "GNUTLS_EXT_ANY"
GNUTLS_EXT_APPLICATION == "GNUTLS_EXT_APPLICATION"
GNUTLS_EXT_TLS == "GNUTLS_EXT_TLS"

CLIENT_HELLO == "CLIENT_HELLO"
TLS12_SERVER_HELLO == "TLS12_SERVER_HELLO"
TLS13_SERVER_HELLO == "TLS13_SERVER_HELLO"
EE == "EE"

\* the message tags a dispatch call is made with
Msgs == {CLIENT_HELLO, TLS12_SERVER_HELLO}
\* the parse-class filters a dispatch call is made with
Filters == {GNUTLS_EXT_ANY, GNUTLS_EXT_APPLICATION}

\* validity given to a registration that names no message (lines 726, 828)
DefaultValidity == {CLIENT_HELLO, TLS12_SERVER_HELLO, EE}

GNUTLS_E_SUCCESS == "GNUTLS_E_SUCCESS"
GNUTLS_E_ALREADY_REGISTERED == "GNUTLS_E_ALREADY_REGISTERED"
GNUTLS_E_MEMORY_ERROR == "GNUTLS_E_MEMORY_ERROR"
GNUTLS_E_INTERNAL_ERROR == "GNUTLS_E_INTERNAL_ERROR"
GNUTLS_E_RECEIVED_ILLEGAL_EXTENSION == "GNUTLS_E_RECEIVED_ILLEGAL_EXTENSION"
GNUTLS_E_INT_RET_0 == "GNUTLS_E_INT_RET_0"
\* a negative value returned by a recv_func or a send_func
RECV_ERROR == "RECV_ERROR"
SEND_ERROR == "SEND_ERROR"

\* an absent operation
NULLFN == "NULL"

(* a hello_ext_entry_st: the fields the engine reads *)
Ext(name, tls_id, gid, parse_type, validity, recv_func, send_func, deinit_func, pack_func, unpack_func, cbo) ==
    [name |-> name, tls_id |-> tls_id, gid |-> gid, parse_type |-> parse_type,
     validity |-> validity, recv_func |-> recv_func, send_func |-> send_func,
     deinit_func |-> deinit_func, pack_func |-> pack_func,
     unpack_func |-> unpack_func, cannot_be_overriden |-> cbo]

\* the NULL descriptor pointer
NULL == Ext("NULL", -1, -1, "NULL", {}, NULLFN, NULLFN, NULLFN, NULLFN, NULLFN, FALSE)

(* The built-in table at start-up: a three-entry excerpt of extfunc, in    *)
(* the table's order, the padding extension last.  The entries' fields     *)
(* live in ext/*.c; max_record_size holds internal id 0.  A pack_func is   *)
(* named after what it writes and an unpack_func after what it reads: the *)
(* private value as one number ("pack_val", "unpack_val") or nothing      *)
(* ("pack_empty", "unpack_empty").                                        *)
extfunc_static ==
    << Ext("ext_mod_max_record_size", 1, 0, GNUTLS_EXT_TLS,
           {CLIENT_HELLO, TLS12_SERVER_HELLO, EE},
           "max_record_recv", "max_record_send",
           NULLFN, "pack_val", "unpack_val", TRUE),
       Ext("ext_mod_alpn", 16, 1, GNUTLS_EXT_APPLICATION,
           {CLIENT_HELLO, TLS12_SERVER_HELLO, EE},
           "alpn_recv", "alpn_send",
           "alpn_deinit", "pack_val", "unpack_val", FALSE),
       Ext("ext_mod_dumbfw", 21, 2, GNUTLS_EXT_APPLICATION,
           {CLIENT_HELLO},
           NULLFN, "dumbfw_send",
           NULLFN, NULLFN, NULLFN, TRUE) >>

(* the calls of gnutls_ext_register the model makes *)
GlobalRegs ==
    { [name |-> "g100", id |-> 100, parse_type |-> GNUTLS_EXT_TLS,
       recv_func |-> "g100_recv", send_func |-> "g100_send",
       deinit_func |-> "g100_deinit", pack_func |-> "pack_empty",
       unpack_func |-> "unpack_empty"],
      [name |-> "g16", id |-> 16, parse_type |-> GNUTLS_EXT_APPLICATION,
       recv_func |-> "g16_recv", send_func |-> "g16_send",
       deinit_func |-> NULLFN, pack_func |-> NULLFN, unpack_func |-> NULLFN] }

(* the calls of gnutls_session_ext_register the model makes; flags is the  *)
(* override bit and the message tags of the flags argument                 *)
SessionRegs ==
    { [name |-> "s16o", id |-> 16, parse_type |-> GNUTLS_EXT_APPLICATION,
       recv_func |-> "s16o_recv", send_func |-> "s16o_send",
       deinit_func |-> "s16o_deinit", pack_func |-> "pack_val",
       unpack_func |-> NULLFN,
       override |-> TRUE, validity |-> {}],
      [name |-> "s16", id |-> 16, parse_type |-> GNUTLS_EXT_APPLICATION,
       recv_func |-> "s16_recv", send_func |-> "s16_send",
       deinit_func |-> NULLFN, pack_func |-> NULLFN, unpack_func |-> NULLFN,
       override |-> FALSE, validity |-> {}],
      [name |-> "s21o", id |-> 21, parse_type |-> GNUTLS_EXT_APPLICATION,
       recv_func |-> "s21o_recv", send_func |-> "s21o_send",
       deinit_func |-> NULLFN, pack_func |-> NULLFN, unpack_func |-> NULLFN,
       override |-> TRUE, validity |-> {}],
      [name |-> "s100o", id |-> 100, parse_type |-> GNUTLS_EXT_TLS,
       recv_func |-> "s100o_recv", send_func |-> "s100o_send",
       deinit_func |-> NULLFN, pack_func |-> "pack_empty",
       unpack_func |-> "unpack_val",
       override |-> TRUE, validity |-> {CLIENT_HELLO}] }

(* ------------------------------- state --------------------------------- *)
VARIABLES
    extfunc,     \* the built-in table up to its NULL terminator
    entity,      \* "none" before gnutls_init, then the session's role
    rexts,       \* session->internals.rexts[0 .. rexts_size-1]
    used_exts,   \* session->internals.used_exts, as the set of its set bits
    ext_data,    \* session->internals.ext_data[0 .. MAX_EXT_TYPES-1]
    recv_calls,  \* per internal id, the recv_func calls a server session made
    last         \* the call the caller is looking at: its arguments and what
                 \* it returned and did; "idle" between two calls

vars == <<extfunc, entity, rexts, used_exts, ext_data, recv_calls, last>>

EmptySlot == [id |-> 0, set |-> FALSE, priv |-> 0, resumed_set |-> FALSE, resumed_priv |-> 0]

Init ==
    /\ extfunc = extfunc_static
    /\ entity = "none"
    /\ rexts = <<>>
    /\ used_exts = {}
    /\ ext_data = [i \in 0..(MAX_EXT_TYPES - 1) |-> EmptySlot]
    /\ recv_calls = [g \in 0..GNUTLS_EXTENSION_MAX_VALUE |-> 0]
    /\ last = [op |-> "idle"]

\* the engine is single-threaded per session (no locks in extensions.c):
\* the caller makes a call only after it is done with the previous one
Idle == last.op = "idle"

\* the caller is done with the outcome of its call; the engine's own state
\* does not change
caller_continues ==
    /\ ~Idle
    /\ last' = [op |-> "idle"]
    /\ UNCHANGED <<extfunc, entity, rexts, used_exts, ext_data, recv_calls>>

(* ------------------------------ helpers -------------------------------- *)
RECURSIVE SeqMaxGid(_, _, _)
\* the running "if (e->gid >= gid) gid = e->gid + 1" over seq[1..n]
SeqMaxGid(seq, n, gid) ==
    IF n = 0 THEN gid
    ELSE LET g == SeqMaxGid(seq, n - 1, gid) IN
         IF seq[n].gid >= g THEN seq[n].gid + 1 ELSE g

\* mutant: no entry is found to carry tls_id
FirstWithTlsId_mut(seq, tls_id) == 0

\* index of the first entry of seq carrying tls_id, 0 when there is none
FirstWithTlsId(seq, tls_id) ==
    IF \E i \in 1..Len(seq) : seq[i].tls_id = tls_id
    THEN CHOOSE i \in 1..Len(seq) :
             /\ seq[i].tls_id = tls_id
             /\ \A j \in 1..(i - 1) : seq[j].tls_id # tls_id
    ELSE 0

\* index of the first entry of seq carrying internal id gid, 0 when none
FirstWithGid(seq, gid) ==
    IF \E i \in 1..Len(seq) : seq[i].gid = gid
    THEN CHOOSE i \in 1..Len(seq) :
             /\ seq[i].gid = gid
             /\ \A j \in 1..(i - 1) : seq[j].gid # gid
    ELSE 0

(* --------------------------- registration ------------------------------ *)
\* mutant: no internal id is refused
gid_exhausted_mut(gid) == FALSE

\* lines 709 and 812: the internal id computed is beyond the bitset
gid_exhausted(gid) == gid > GNUTLS_EXTENSION_MAX_VALUE

\* ext_register: append at the first NULL entry, unless the table is full
ext_register(tab, mod) ==
    IF Len(tab) >= MAX_EXT_TYPES - 1
    THEN [ret |-> GNUTLS_E_INTERNAL_ERROR, extfunc |-> tab]
    ELSE [ret |-> GNUTLS_E_SUCCESS, extfunc |-> Append(tab, mod)]

\* gnutls_ext_register, lines 699-710: the internal id of the new entry
ext_register_gid(tab) == SeqMaxGid(tab, Len(tab), GNUTLS_EXTENSION_MAX + 1)

gnutls_ext_register(req) ==
    /\ Idle
    /\ entity = "none"
    /\ LET gid == ext_register_gid(extfunc)
           tmp_mod == Ext(req.name, req.id, gid, req.parse_type, DefaultValidity,
                          req.recv_func, req.send_func, req.deinit_func,
                          req.pack_func, req.unpack_func, FALSE)
           r == IF FirstWithTlsId(extfunc, req.id) # 0
                THEN [ret |-> GNUTLS_E_ALREADY_REGISTERED, extfunc |-> extfunc]
                ELSE IF gid_exhausted(gid)
                THEN [ret |-> GNUTLS_E_MEMORY_ERROR, extfunc |-> extfunc]
                ELSE ext_register(extfunc, tmp_mod)
       IN /\ extfunc' = r.extfunc
          /\ last' = [op |-> "gnutls_ext_register", req |-> req, ret |-> r.ret]
    /\ UNCHANGED <<entity, rexts, used_exts, ext_data, recv_calls>>

\* gnutls_init: the session starts with an empty overlay, bitset and table
gnutls_init(role) ==
    /\ Idle
    /\ entity = "none"
    /\ entity' = role
    /\ last' = [op |-> "gnutls_init"]
    /\ UNCHANGED <<extfunc, rexts, used_exts, ext_data, recv_calls>>

\* gnutls_session_ext_register, lines 789-801: the built-in loop stops at
\* the entry carrying id; it returns the index of that entry (0: none)
\* and the gid reached
session_register_builtin_scan(tab, id) ==
    LET k == FirstWithTlsId(tab, id)
        n == IF k = 0 THEN Len(tab) ELSE k - 1
    IN [hit |-> k, gid |-> SeqMaxGid(tab, n, GNUTLS_EXTENSION_MAX + 1)]

\* mutant: the cannot_be_overriden test of line 793 is left out
session_register_ret_mut(req, scan, gid) ==
    IF scan.hit # 0 /\ ~req.override
        THEN GNUTLS_E_ALREADY_REGISTERED
    ELSE IF FirstWithTlsId(rexts, req.id) # 0
        THEN GNUTLS_E_ALREADY_REGISTERED
    ELSE IF gid_exhausted(gid)
        THEN GNUTLS_E_MEMORY_ERROR
    ELSE GNUTLS_E_SUCCESS

\* gnutls_session_ext_register, lines 789-813: what the call returns
\* before it grows the overlay
session_register_ret(req, scan, gid) ==
    IF scan.hit # 0 /\ ~req.override
        THEN GNUTLS_E_ALREADY_REGISTERED
    ELSE IF scan.hit # 0 /\ extfunc[scan.hit].cannot_be_overriden
        THEN GNUTLS_E_ALREADY_REGISTERED
    ELSE IF FirstWithTlsId(rexts, req.id) # 0
        THEN GNUTLS_E_ALREADY_REGISTERED
    ELSE IF gid_exhausted(gid)
        THEN GNUTLS_E_MEMORY_ERROR
    ELSE GNUTLS_E_SUCCESS

gnutls_session_ext_register(req) ==
    /\ Idle
    /\ entity # "none"
    /\ LET scan == session_register_builtin_scan(extfunc, req.id)
           gid == SeqMaxGid(rexts, Len(rexts), scan.gid)
           validity == IF req.validity = {} THEN DefaultValidity ELSE req.validity
           tmp_mod == Ext(req.name, req.id, gid, req.parse_type, validity,
                          req.recv_func, req.send_func, req.deinit_func,
                          req.pack_func, req.unpack_func, FALSE)
           ret == session_register_ret(req, scan, gid)
       IN /\ ret = GNUTLS_E_SUCCESS => Len(rexts) < MaxRexts
          /\ rexts' = IF ret = GNUTLS_E_SUCCESS THEN Append(rexts, tmp_mod) ELSE rexts
          /\ last' = [op |-> "gnutls_session_ext_register", req |-> req, ret |-> ret]
    /\ UNCHANGED <<extfunc, entity, used_exts, ext_data, recv_calls>>

(* ------------------------ advertisement bitset ------------------------- *)
\* _gnutls_extension_list_check: success when bit id of used_exts is set
_gnutls_extension_list_check(used, id) ==
    IF id \in used THEN GNUTLS_E_SUCCESS ELSE GNUTLS_E_RECEIVED_ILLEGAL_EXTENSION

\* _gnutls_extension_list_add: ret 0 when check_dup and the bit is already
\* set, else the bit is set and ret is 1
_gnutls_extension_list_add(used, e, check_dup) ==
    IF check_dup /\ _gnutls_extension_list_check(used, e.gid) = GNUTLS_E_SUCCESS
    THEN [ret |-> 0, used |-> used]
    ELSE [ret |-> 1, used |-> used \cup {e.gid}]

(* ------------------------------ lookup --------------------------------- *)
\* mutant: an overlay descriptor of another class is passed over and the
\* built-ins are searched
_gnutls_ext_ptr_mut(id, parse_type) ==
    LET ok(e) == parse_type = GNUTLS_EXT_ANY \/ e.parse_type = parse_type
        i == FirstWithGid(rexts, id)
        j == FirstWithGid(extfunc, id)
        e == IF i # 0 /\ ok(rexts[i]) THEN rexts[i]
             ELSE IF j # 0 THEN extfunc[j] ELSE NULL
    IN IF e = NULL THEN NULL
       ELSE IF ok(e) THEN e
       ELSE NULL

\* _gnutls_ext_ptr: overlay first, then built-ins, then the class filter
_gnutls_ext_ptr(id, parse_type) ==
    LET i == FirstWithGid(rexts, id)
        j == FirstWithGid(extfunc, id)
        e == IF i # 0 THEN rexts[i] ELSE IF j # 0 THEN extfunc[j] ELSE NULL
    IN IF e = NULL THEN NULL
       ELSE IF parse_type = GNUTLS_EXT_ANY \/ e.parse_type = parse_type THEN e
       ELSE NULL

\* mutant: the built-ins are searched before the overlay
tls_id_to_gid_mut(tls_id) ==
    LET i == FirstWithTlsId(rexts, tls_id)
        j == FirstWithTlsId(extfunc, tls_id)
    IN IF j # 0 THEN extfunc[j].gid ELSE IF i # 0 THEN rexts[i].gid ELSE 0

\* tls_id_to_gid: overlay first, then built-ins, 0 when nobody carries it
tls_id_to_gid(tls_id) ==
    LET i == FirstWithTlsId(rexts, tls_id)
        j == FirstWithTlsId(extfunc, tls_id)
    IN IF i # 0 THEN rexts[i].gid ELSE IF j # 0 THEN extfunc[j].gid ELSE 0

(* --------------------------- inbound dispatch -------------------------- *)
\* mutant: the role test of line 188 names the server
parse_unsolicited_mut(used, id) ==
    /\ entity = GNUTLS_SERVER
    /\ _gnutls_extension_list_check(used, id) # GNUTLS_E_SUCCESS

\* hello_ext_parse, lines 188-196: a client refuses what it did not send
parse_unsolicited(used, id) ==
    /\ entity = GNUTLS_CLIENT
    /\ _gnutls_extension_list_check(used, id) # GNUTLS_E_SUCCESS

\* mutant: the recv_func test of line 199 is left out
parse_ignored_mut(ext) == ext = NULL

\* hello_ext_parse, line 199: no descriptor under the filter, or no recv
parse_ignored(ext) == ext = NULL \/ ext.recv_func = NULLFN

\* mutant: the validity test of line 206 is inverted
parse_illegal_mut(ext, msg) == msg \in ext.validity

\* hello_ext_parse, line 206: (ext->validity & ctx->msg) == 0
parse_illegal(ext, msg) == msg \notin ext.validity

\* mutant: line 214 passes check_dup = 0
parse_server_mark_mut(used, ext) ==
    IF entity = GNUTLS_SERVER
    THEN _gnutls_extension_list_add(used, ext, FALSE)
    ELSE [ret |-> 1, used |-> used]

\* hello_ext_parse, lines 213-217: a server marks the id; dup is ret == 0
parse_server_mark(used, ext) ==
    IF entity = GNUTLS_SERVER
    THEN _gnutls_extension_list_add(used, ext, TRUE)
    ELSE [ret |-> 1, used |-> used]

\* mutant: the id == 0 test of lines 183-186 is left out
hello_ext_parse_mut(ctx, tls_id, i, used, recv_ok) ==
    LET id == tls_id_to_gid(tls_id)
        ext == _gnutls_ext_ptr(id, ctx.parse_type)
        mark == parse_server_mark(used, ext)
    IN IF parse_unsolicited(used, id)
           THEN [ret |-> _gnutls_extension_list_check(used, id),
                 kind |-> "UNSOLICITED_EXTENSION", used |-> used, recv |-> <<>>]
       ELSE IF parse_ignored(ext)
           THEN [ret |-> GNUTLS_E_SUCCESS, kind |-> "IGNORED",
                 used |-> used, recv |-> <<>>]
       ELSE IF parse_illegal(ext, ctx.msg)
           THEN [ret |-> GNUTLS_E_RECEIVED_ILLEGAL_EXTENSION,
                 kind |-> "ILLEGAL_EXTENSION_FOR_MESSAGE",
                 used |-> used, recv |-> <<>>]
       ELSE IF mark.ret = 0
           THEN [ret |-> GNUTLS_E_RECEIVED_ILLEGAL_EXTENSION,
                 kind |-> "DUPLICATE_EXTENSION",
                 used |-> mark.used, recv |-> <<>>]
       ELSE [ret |-> IF recv_ok THEN GNUTLS_E_SUCCESS ELSE RECV_ERROR,
             kind |-> IF recv_ok THEN "RECV" ELSE "RECV_ERROR",
             used |-> mark.used,
             recv |-> << [tlv |-> i, tls_id |-> tls_id, ext |-> ext] >>]

(* hello_ext_parse for the TLV at index i of the block; recv_ok is what    *)
(* the recv_func returns if it is called.  kind names the return taken.   *)
hello_ext_parse(ctx, tls_id, i, used, recv_ok) ==
    LET id == tls_id_to_gid(tls_id)
        ext == _gnutls_ext_ptr(id, ctx.parse_type)
        mark == parse_server_mark(used, ext)
    IN IF id = 0
           THEN [ret |-> GNUTLS_E_SUCCESS, kind |-> "SKIP_UNKNOWN",
                 used |-> used, recv |-> <<>>]
       ELSE IF parse_unsolicited(used, id)
           THEN [ret |-> _gnutls_extension_list_check(used, id),
                 kind |-> "UNSOLICITED_EXTENSION", used |-> used, recv |-> <<>>]
       ELSE IF parse_ignored(ext)
           THEN [ret |-> GNUTLS_E_SUCCESS, kind |-> "IGNORED",
                 used |-> used, recv |-> <<>>]
       ELSE IF parse_illegal(ext, ctx.msg)
           THEN [ret |-> GNUTLS_E_RECEIVED_ILLEGAL_EXTENSION,
                 kind |-> "ILLEGAL_EXTENSION_FOR_MESSAGE",
                 used |-> used, recv |-> <<>>]
       ELSE IF mark.ret = 0
           THEN [ret |-> GNUTLS_E_RECEIVED_ILLEGAL_EXTENSION,
                 kind |-> "DUPLICATE_EXTENSION",
                 used |-> mark.used, recv |-> <<>>]
       ELSE [ret |-> IF recv_ok THEN GNUTLS_E_SUCCESS ELSE RECV_ERROR,
             kind |-> IF recv_ok THEN "RECV" ELSE "RECV_ERROR",
             used |-> mark.used,
             recv |-> << [tlv |-> i, tls_id |-> tls_id, ext |-> ext] >>]

RECURSIVE _gnutls_extv_parse(_, _, _, _, _)
\* _gnutls_extv_parse: the callback on every TLV in order, until one fails
_gnutls_extv_parse(ctx, data, i, used, log) ==
    IF i > Len(data)
    THEN [ret |-> GNUTLS_E_SUCCESS, kind |-> "OK", at |-> 0,
          used |-> used, recv |-> log]
    ELSE LET r == hello_ext_parse(ctx, data[i], i, used, ctx.bad # i) IN
         IF r.ret # GNUTLS_E_SUCCESS
         THEN [ret |-> r.ret, kind |-> r.kind, at |-> i,
               used |-> r.used, recv |-> log \o r.recv]
         ELSE _gnutls_extv_parse(ctx, data, i + 1, r.used, log \o r.recv)

\* calls, with the recv_func calls of log added (counted up to 2)
CountCalls(calls, log) ==
    [g \in DOMAIN calls |->
        LET n == calls[g] + Cardinality({k \in 1..Len(log) : log[k].ext.gid = g})
        IN IF n > 2 THEN 2 ELSE n]

\* the wire ids of the blocks the model parses: built-ins, registered ones
\* and 99, which no descriptor carries
BlockWires == {16, 21, 99, 100}

Blocks == UNION { [1..n -> BlockWires] : n \in 1..MaxTLVs }

\* _gnutls_parse_extensions(session, msg, parse_type, data); bad is the
\* index of the TLV whose recv_func fails (0: none fails)
_gnutls_parse_extensions(msg, parse_type, data, bad) ==
    /\ Idle
    /\ entity # "none"
    /\ \E r \in { _gnutls_extv_parse([msg |-> msg, parse_type |-> parse_type,
                                       bad |-> bad], data, 1, used_exts, <<>>) } :
          /\ used_exts' = r.used
          /\ last' = [op |-> "parse", msg |-> msg, parse_type |-> parse_type,
                      data |-> data, used0 |-> used_exts, ret |-> r.ret,
                      kind |-> r.kind, at |-> r.at, recv |-> r.recv]
          /\ recv_calls' = IF entity = GNUTLS_SERVER
                           THEN CountCalls(recv_calls, r.recv)
                           ELSE recv_calls
    /\ UNCHANGED <<extfunc, entity, rexts, ext_data>>

(* -------------------------- outbound dispatch -------------------------- *)
\* what a send_func may do: append payload, append nothing, ask for an
\* empty extension, or fail
SendOutcomes == {"data", "none", "ret0", "err"}

send_ret(oc) ==
    IF oc = "ret0" THEN GNUTLS_E_INT_RET_0
    ELSE IF oc = "err" THEN SEND_ERROR ELSE GNUTLS_E_SUCCESS

send_appended(oc) == IF oc = "data" THEN 1 ELSE 0

\* hello_ext_send, lines 262-275: no send, other class, or not valid here
send_skipped(ctx, p) ==
    \/ p.send_func = NULLFN
    \/ (ctx.parse_type # GNUTLS_EXT_ANY /\ p.parse_type # ctx.parse_type)
    \/ ctx.msg \notin p.validity

\* mutant: the server branch of lines 281-284 is missing
send_suppressed_mut(used, p) ==
    _gnutls_extension_list_check(used, p.gid) = GNUTLS_E_SUCCESS

\* hello_ext_send, lines 279-289: a server sends only what it received, a
\* client sends nothing twice
send_suppressed(used, p) ==
    LET ret == _gnutls_extension_list_check(used, p.gid) IN
    IF entity = GNUTLS_SERVER
    THEN ret # GNUTLS_E_SUCCESS
    ELSE ret = GNUTLS_E_SUCCESS

\* mutant: GNUTLS_E_INT_RET_0 does not count as advertising
send_advertise_mut(used, p, oc) ==
    IF send_appended(oc) > 0 /\ entity = GNUTLS_CLIENT
    THEN _gnutls_extension_list_add(used, p, FALSE).used
    ELSE used

\* hello_ext_send, lines 304-308: the client records what it advertised
send_advertise(used, p, oc) ==
    IF (send_appended(oc) > 0 \/ send_ret(oc) = GNUTLS_E_INT_RET_0)
       /\ entity = GNUTLS_CLIENT
    THEN _gnutls_extension_list_add(used, p, FALSE).used
    ELSE used

(* hello_ext_send for descriptor p; oc is what its send_func does if called *)
hello_ext_send(ctx, p, used, oc) ==
    IF send_skipped(ctx, p) \/ send_suppressed(used, p)
    THEN [called |-> FALSE, ret |-> GNUTLS_E_SUCCESS, appended |-> 0, used |-> used]
    ELSE IF send_ret(oc) = SEND_ERROR
    THEN [called |-> TRUE, ret |-> SEND_ERROR, appended |-> 0, used |-> used]
    ELSE [called |-> TRUE, ret |-> send_ret(oc), appended |-> send_appended(oc),
          used |-> send_advertise(used, p, oc)]

\* _gnutls_extv_append: the TLV stays in the buffer when the callback
\* appended payload or returned GNUTLS_E_INT_RET_0, else it is taken back
_gnutls_extv_append(tls_id, p, r) ==
    IF r.ret = SEND_ERROR THEN <<>>
    ELSE IF r.appended > 0 THEN << [tls_id |-> tls_id, body |-> p.send_func] >>
    ELSE IF r.ret = GNUTLS_E_INT_RET_0 THEN << [tls_id |-> tls_id, body |-> "" ] >>
    ELSE <<>>

\* mutant: the built-ins are walked before the overlay
gen_order_mut == extfunc \o rexts

\* _gnutls_gen_extensions, lines 333-359: the overlay, then the built-ins
gen_order == rexts \o extfunc

RECURSIVE gen_walk(_, _, _, _, _, _)
\* the two loops of _gnutls_gen_extensions from entry i of gen_order on; k
\* send_funcs have been called so far
gen_walk(ctx, i, used, k, sent, out) ==
    IF i > Len(gen_order)
    THEN [ret |-> GNUTLS_E_SUCCESS, used |-> used, sent |-> sent, out |-> out]
    ELSE LET p == gen_order[i]
             oc == IF k + 1 <= MaxSends THEN ctx.sb[k + 1] ELSE "data"
             r == hello_ext_send(ctx, p, used, oc)
             sent2 == IF r.called
                      THEN Append(sent, [pos |-> i, ext |-> p, oc |-> oc])
                      ELSE sent
             out2 == out \o _gnutls_extv_append(p.tls_id, p, r)
         IN IF r.ret = SEND_ERROR
            THEN [ret |-> r.ret, used |-> r.used, sent |-> sent2, out |-> out2]
            ELSE gen_walk(ctx, i + 1, r.used, IF r.called THEN k + 1 ELSE k,
                          sent2, out2)

\* _gnutls_gen_extensions(session, buf, msg, parse_type); sb[k] is what the
\* k-th send_func called does (those after MaxSends append payload)
_gnutls_gen_extensions(msg, parse_type, sb) ==
    /\ Idle
    /\ entity # "none"
    /\ \E r \in { gen_walk([msg |-> msg, parse_type |-> parse_type, sb |-> sb],
                             1, used_exts, 0, <<>>, <<>>) } :
          /\ used_exts' = r.used
          /\ last' = [op |-> "emit", msg |-> msg, parse_type |-> parse_type,
                      used0 |-> used_exts, ret |-> r.ret, sent |-> r.sent,
                      out |-> r.out]
    /\ UNCHANGED <<extfunc, entity, rexts, ext_data, recv_calls>>

(* ------------------------- session data table -------------------------- *)
GNUTLS_E_REQUESTED_DATA_NOT_AVAILABLE == "GNUTLS_E_REQUESTED_DATA_NOT_AVAILABLE"
GNUTLS_E_INVALID_REQUEST == "GNUTLS_E_INVALID_REQUEST"
GNUTLS_E_PARSING_ERROR == "GNUTLS_E_PARSING_ERROR"
\* a negative value returned by a pack_func or an unpack_func
PACK_ERROR == "PACK_ERROR"
UNPACK_ERROR == "UNPACK_ERROR"

\* the indices of ext_data
Slots == 0..(MAX_EXT_TYPES - 1)

\* lines 611-613 and 482-484: the first slot that carries id or has neither
\* flag set; -1 when the loop ends without one
set_slot(tab, id) ==
    LET S == {i \in Slots : \/ tab[i].id = id
                            \/ (~tab[i].set /\ ~tab[i].resumed_set)}
    IN IF S = {} THEN -1 ELSE CHOOSE i \in S : \A j \in S : i <= j

\* lines 561-562: the first slot that carries id, populated or not
id_slot(tab, id) ==
    LET S == {i \in Slots : tab[i].id = id}
    IN IF S = {} THEN -1 ELSE CHOOSE i \in S : \A j \in S : i <= j

\* the deinit_func call of lines 547-548 and 574-576, as a log entry
deinit_call(ext, priv) ==
    IF ext # NULL /\ ext.deinit_func # NULLFN /\ priv # 0
    THEN << [fn |-> ext.deinit_func, priv |-> priv] >>
    ELSE <<>>

\* unset_ext_data(session, ext, idx)
unset_ext_data(tab, ext, idx) ==
    IF ~tab[idx].set
    THEN [tab |-> tab, deinit |-> <<>>]
    ELSE [tab |-> [tab EXCEPT ![idx].set = FALSE],
          deinit |-> deinit_call(ext, tab[idx].priv)]

\* unset_resumed_ext_data clearing the flag without the deinit_func call
unset_resumed_ext_data_mut(tab, ext, idx) ==
    IF ~tab[idx].resumed_set
    THEN [tab |-> tab, deinit |-> <<>>]
    ELSE [tab |-> [tab EXCEPT ![idx].resumed_set = FALSE],
          deinit |-> <<>>]

\* unset_resumed_ext_data(session, ext, idx)
unset_resumed_ext_data(tab, ext, idx) ==
    IF ~tab[idx].resumed_set
    THEN [tab |-> tab, deinit |-> <<>>]
    ELSE [tab |-> [tab EXCEPT ![idx].resumed_set = FALSE],
          deinit |-> deinit_call(ext, tab[idx].resumed_priv)]

\* _gnutls_ext_set_session_data: returns nothing; slot is the index
\* written, -1 when the loop found none
ext_set_session_data(tab, id, data) ==
    LET ext == _gnutls_ext_ptr(id, GNUTLS_EXT_ANY)
        i == set_slot(tab, id)
    IN IF i = -1
       THEN [tab |-> tab, deinit |-> <<>>, slot |-> -1]
       ELSE LET u == IF tab[i].set
                     THEN unset_ext_data(tab, ext, i)
                     ELSE [tab |-> tab, deinit |-> <<>>]
            IN [tab |-> [u.tab EXCEPT ![i].id = id, ![i].priv = data,
                                      ![i].set = TRUE],
                deinit |-> u.deinit, slot |-> i]

\* _gnutls_ext_set_resumed_session_data
ext_set_resumed_session_data(tab, id, data) ==
    LET ext == _gnutls_ext_ptr(id, GNUTLS_EXT_ANY)
        i == set_slot(tab, id)
    IN IF i = -1
       THEN [tab |-> tab, deinit |-> <<>>, slot |-> -1]
       ELSE LET u == IF tab[i].resumed_set
                     THEN unset_resumed_ext_data(tab, ext, i)
                     ELSE [tab |-> tab, deinit |-> <<>>]
            IN [tab |-> [u.tab EXCEPT ![i].id = id, ![i].resumed_priv = data,
                                      ![i].resumed_set = TRUE],
                deinit |-> u.deinit, slot |-> i]

\* _gnutls_ext_unset_session_data
ext_unset_session_data(tab, id) ==
    LET ext == _gnutls_ext_ptr(id, GNUTLS_EXT_ANY)
        i == id_slot(tab, id)
    IN IF i = -1
       THEN [tab |-> tab, deinit |-> <<>>]
       ELSE unset_ext_data(tab, ext, i)

\* _gnutls_ext_get_session_data: the first slot with set and this id
ext_get_session_data(tab, id) ==
    LET S == {i \in Slots : tab[i].set /\ tab[i].id = id}
    IN IF S = {}
       THEN [ret |-> GNUTLS_E_REQUESTED_DATA_NOT_AVAILABLE, data |-> 0]
       ELSE [ret |-> GNUTLS_E_SUCCESS,
             data |-> tab[CHOOSE i \in S : \A j \in S : i <= j].priv]

\* _gnutls_ext_get_resumed_session_data
ext_get_resumed_session_data(tab, id) ==
    LET S == {i \in Slots : tab[i].resumed_set /\ tab[i].id = id}
    IN IF S = {}
       THEN [ret |-> GNUTLS_E_INVALID_REQUEST, data |-> 0]
       ELSE [ret |-> GNUTLS_E_SUCCESS,
             data |-> tab[CHOOSE i \in S : \A j \in S : i <= j].resumed_priv]

\* the private values callers store; 0 is the NULL pointer
Privs == {1, 2}

\* _gnutls_ext_set_session_data(session, id, data), called by the extension
\* that owns internal id id
_gnutls_ext_set_session_data(id, data) ==
    /\ Idle
    /\ entity # "none"
    /\ \E r \in { ext_set_session_data(ext_data, id, data) } :
          /\ ext_data' = r.tab
          /\ last' = [op |-> "_gnutls_ext_set_session_data", id |-> id,
                      data |-> data, tab0 |-> ext_data, ret |-> "void",
                      slot |-> r.slot, deinit |-> r.deinit]
    /\ UNCHANGED <<extfunc, entity, rexts, used_exts, recv_calls>>

\* _gnutls_ext_unset_session_data(session, id)
_gnutls_ext_unset_session_data(id) ==
    /\ Idle
    /\ entity # "none"
    /\ \E r \in { ext_unset_session_data(ext_data, id) } :
          /\ ext_data' = r.tab
          /\ last' = [op |-> "_gnutls_ext_unset_session_data", id |-> id,
                      tab0 |-> ext_data, ret |-> "void", deinit |-> r.deinit]
    /\ UNCHANGED <<extfunc, entity, rexts, used_exts, recv_calls>>

\* gnutls_ext_set_data(session, tls_id, data), lines 856-865
gnutls_ext_set_data(tls_id, data) ==
    /\ Idle
    /\ entity # "none"
    /\ \E id \in { tls_id_to_gid(tls_id) } :
       \E r \in { IF id = 0
                  THEN [tab |-> ext_data, deinit |-> <<>>, slot |-> -1]
                  ELSE ext_set_session_data(ext_data, id, data) } :
          /\ ext_data' = r.tab
          /\ last' = [op |-> "gnutls_ext_set_data", tls_id |-> tls_id,
                      id |-> id, data |-> data, tab0 |-> ext_data,
                      ret |-> "void", slot |-> r.slot, deinit |-> r.deinit]
    /\ UNCHANGED <<extfunc, entity, rexts, used_exts, recv_calls>>

\* gnutls_ext_get_data, lines 883-887: what it returns on table tab
ext_get_data(tab, tls_id) ==
    LET id == tls_id_to_gid(tls_id)
    IN IF id = 0
       THEN [ret |-> GNUTLS_E_REQUESTED_DATA_NOT_AVAILABLE, data |-> 0]
       ELSE ext_get_session_data(tab, id)

\* gnutls_ext_get_data(session, tls_id, &data), lines 879-888
gnutls_ext_get_data(tls_id) ==
    /\ Idle
    /\ entity # "none"
    /\ \E r \in { ext_get_data(ext_data, tls_id) } :
          last' = [op |-> "gnutls_ext_get_data", tls_id |-> tls_id,
                   id |-> tls_id_to_gid(tls_id), ret |-> r.ret, data |-> r.data]
    /\ UNCHANGED <<extfunc, entity, rexts, used_exts, ext_data, recv_calls>>

(* ---------------------- resumption serialization ----------------------- *)
(* A packed buffer is the sequence of the numbers and body cells written  *)
(* to it: n_exts, then per record the internal id, the size and the body. *)

\* what a descriptor's pack_func appends for private value data
pack_body(pack_func, data) ==
    IF pack_func = "pack_val" THEN << data >> ELSE <<>>

\* mutant: the record is written whether or not the extension has live
\* data
pack_extension_mut(tab, extp, packed, pack_ok) ==
    LET g == ext_get_session_data(tab, extp.gid)
        body == pack_body(extp.pack_func, g.data)
    IN IF extp.pack_func # NULLFN
       THEN IF ~pack_ok
            THEN [err |-> TRUE, rval |-> 0, packed |-> packed \o << extp.gid, 0 >>]
            ELSE [err |-> FALSE, rval |-> 1,
                  packed |-> packed \o << extp.gid, Len(body) >> \o body]
       ELSE [err |-> FALSE, rval |-> 0, packed |-> packed]

\* pack_extension(session, extp, packed); pack_ok is what the pack_func
\* returns if it is called.  rval is 1 when a record was written.
pack_extension(tab, extp, packed, pack_ok) ==
    LET g == ext_get_session_data(tab, extp.gid)
        body == pack_body(extp.pack_func, g.data)
    IN IF g.ret = GNUTLS_E_SUCCESS /\ extp.pack_func # NULLFN
       THEN IF ~pack_ok
            THEN [err |-> TRUE, rval |-> 0, packed |-> packed \o << extp.gid, 0 >>]
            ELSE [err |-> FALSE, rval |-> 1,
                  packed |-> packed \o << extp.gid, Len(body) >> \o body]
       ELSE [err |-> FALSE, rval |-> 0, packed |-> packed]

RECURSIVE pack_walk(_, _, _, _, _, _)
\* the loop of _gnutls_ext_pack from internal id i on; recs is what follows
\* the count in the buffer, ids the internal ids of the records written
pack_walk(tab, used, i, recs, ids, pbad) ==
    IF i > GNUTLS_EXTENSION_MAX_VALUE
    THEN [ret |-> GNUTLS_E_SUCCESS, packed |-> << Len(ids) >> \o recs, ids |-> ids]
    ELSE IF i \notin used
    THEN pack_walk(tab, used, i + 1, recs, ids, pbad)
    ELSE LET ext == _gnutls_ext_ptr(i, GNUTLS_EXT_ANY) IN
         IF ext = NULL
         THEN pack_walk(tab, used, i + 1, recs, ids, pbad)
         ELSE LET r == pack_extension(tab, ext, recs, pbad # i) IN
              IF r.err
              THEN [ret |-> PACK_ERROR, packed |-> << 0 >> \o r.packed, ids |-> ids]
              ELSE pack_walk(tab, used, i + 1, r.packed,
                             IF r.rval = 1 THEN Append(ids, ext.gid) ELSE ids, pbad)

\* mutant: the count written first is not set to the number of records
ext_pack_mut(tab, used, pbad) ==
    LET r == pack_walk(tab, used, 0, <<>>, <<>>, pbad)
    IN [r EXCEPT !.packed = << 0 >> \o Tail(r.packed)]

\* _gnutls_ext_pack(session, packed) on table tab and bitset used
ext_pack(tab, used, pbad) == pack_walk(tab, used, 0, <<>>, <<>>, pbad)

\* BUFFER_POP_NUM: the next number of the buffer, or a failure when the
\* buffer is exhausted
BUFFER_POP_NUM(packed) ==
    IF packed = <<>>
    THEN [ok |-> FALSE, num |-> 0, packed |-> packed]
    ELSE [ok |-> TRUE, num |-> Head(packed), packed |-> Tail(packed)]

\* what a descriptor's unpack_func does on the buffer: the value it
\* produces and what it leaves in the buffer; call_ok = FALSE makes it fail
unpack_call(unpack_func, packed, call_ok) ==
    IF ~call_ok
    THEN [ok |-> FALSE, data |-> 0, packed |-> packed]
    ELSE IF unpack_func = "unpack_val"
    THEN IF packed = <<>>
         THEN [ok |-> FALSE, data |-> 0, packed |-> packed]
         ELSE [ok |-> TRUE, data |-> Head(packed), packed |-> Tail(packed)]
    ELSE [ok |-> TRUE, data |-> 0, packed |-> packed]

\* mutant: the number of bytes the unpack_func consumed is not verified
unpack_verdict_mut(ext, u_ok, cur_pos, size_for_id) ==
    IF ext = NULL \/ ext.unpack_func = NULLFN THEN "NO_UNPACK"
    ELSE IF ~u_ok THEN "UNPACK_ERROR"
    ELSE "OK"

\* the checks of _gnutls_ext_unpack on one record: the descriptor and its
\* unpack_func, the return of the unpack_func, the bytes it consumed
unpack_verdict(ext, u_ok, cur_pos, size_for_id) ==
    IF ext = NULL \/ ext.unpack_func = NULLFN THEN "NO_UNPACK"
    ELSE IF ~u_ok THEN "UNPACK_ERROR"
    ELSE IF cur_pos # size_for_id THEN "SIZE"
    ELSE "OK"

RECURSIVE unpack_walk(_, _, _, _, _, _, _)
(* the loop of _gnutls_ext_unpack from record i on (i counts from 0); the  *)
(* unpack_func called for record ubad fails (-1: none).  log has one      *)
(* entry per record whose unpack_func produced a value: the id, the       *)
(* value, and the slot it was installed in (-1: not installed).  at is    *)
(* the record the error is returned at, why names the return taken.       *)
unpack_walk(tab, packed, i, max_exts, ubad, log, deinit) ==
    IF i >= max_exts
    THEN [ret |-> GNUTLS_E_SUCCESS, why |-> "OK", at |-> -1, tab |-> tab,
          log |-> log, deinit |-> deinit]
    ELSE LET p1 == BUFFER_POP_NUM(packed)
             p2 == BUFFER_POP_NUM(p1.packed)
             id == p1.num
             size_for_id == p2.num
             ext == _gnutls_ext_ptr(id, GNUTLS_EXT_ANY)
             u == unpack_call(ext.unpack_func, p2.packed, ubad # i)
             cur_pos == Len(p2.packed) - Len(u.packed)
             why == unpack_verdict(ext, u.ok, cur_pos, size_for_id)
             st == ext_set_resumed_session_data(tab, id, u.data)
         IN IF ~p1.ok \/ ~p2.ok
            THEN [ret |-> GNUTLS_E_PARSING_ERROR, why |-> "SHORT", at |-> i,
                  tab |-> tab, log |-> log, deinit |-> deinit]
            ELSE IF why = "NO_UNPACK"
            THEN [ret |-> GNUTLS_E_PARSING_ERROR, why |-> why, at |-> i,
                  tab |-> tab, log |-> log, deinit |-> deinit]
            ELSE IF why = "UNPACK_ERROR"
            THEN [ret |-> UNPACK_ERROR, why |-> why, at |-> i,
                  tab |-> tab, log |-> log, deinit |-> deinit]
            ELSE IF why = "SIZE"
            THEN [ret |-> GNUTLS_E_PARSING_ERROR, why |-> why, at |-> i,
                  tab |-> tab,
                  log |-> Append(log, [id |-> id, data |-> u.data, slot |-> -1]),
                  deinit |-> deinit]
            ELSE unpack_walk(st.tab, u.packed, i + 1, max_exts, ubad,
                             Append(log, [id |-> id, data |-> u.data,
                                          slot |-> st.slot]),
                             deinit \o st.deinit)

\* _gnutls_ext_unpack(session, packed) on table tab
ext_unpack(tab, packed, ubad) ==
    LET p0 == BUFFER_POP_NUM(packed)
    IN IF ~p0.ok
       THEN [ret |-> GNUTLS_E_PARSING_ERROR, why |-> "SHORT", at |-> -1,
             tab |-> tab, log |-> <<>>, deinit |-> <<>>]
       ELSE unpack_walk(tab, p0.packed, 0, p0.num, ubad, <<>>, <<>>)

\* _gnutls_ext_pack(session, packed); the pack_func of internal id pbad
\* fails (-1: none does)
_gnutls_ext_pack(pbad) ==
    /\ Idle
    /\ entity # "none"
    /\ \E r \in { ext_pack(ext_data, used_exts, pbad) } :
          last' = [op |-> "_gnutls_ext_pack", pbad |-> pbad, ret |-> r.ret,
                   packed |-> r.packed, ids |-> r.ids]
    /\ UNCHANGED <<extfunc, entity, rexts, used_exts, ext_data, recv_calls>>

\* _gnutls_ext_unpack(session, packed); the unpack_func called for record
\* ubad fails (-1: none does)
_gnutls_ext_unpack(packed, ubad) ==
    /\ Idle
    /\ entity # "none"
    /\ \E r \in { ext_unpack(ext_data, packed, ubad) } :
          /\ ext_data' = r.tab
          /\ last' = [op |-> "_gnutls_ext_unpack", packed |-> packed,
                      ubad |-> ubad, tab0 |-> ext_data, ret |-> r.ret,
                      why |-> r.why, at |-> r.at, log |-> r.log,
                      deinit |-> r.deinit]
    /\ UNCHANGED <<extfunc, entity, rexts, used_exts, recv_calls>>

RECURSIVE free_walk(_, _, _)
\* the loop of _gnutls_ext_free_session_data from slot i on
free_walk(tab, i, deinit) ==
    IF i >= MAX_EXT_TYPES
    THEN [tab |-> tab, deinit |-> deinit]
    ELSE IF ~tab[i].set /\ ~tab[i].resumed_set
    THEN free_walk(tab, i + 1, deinit)
    ELSE LET ext == _gnutls_ext_ptr(tab[i].id, GNUTLS_EXT_ANY)
             u == unset_ext_data(tab, ext, i)
             v == unset_resumed_ext_data(u.tab, ext, i)
         IN free_walk(v.tab, i + 1, deinit \o u.deinit \o v.deinit)

\* _gnutls_ext_free_session_data on table tab
ext_free_session_data(tab) == free_walk(tab, 0, <<>>)

\* _gnutls_ext_free_session_data(session)
_gnutls_ext_free_session_data ==
    /\ Idle
    /\ entity # "none"
    /\ \E r \in { ext_free_session_data(ext_data) } :
          /\ ext_data' = r.tab
          /\ last' = [op |-> "_gnutls_ext_free_session_data", tab0 |-> ext_data,
                      ret |-> "void", deinit |-> r.deinit]
    /\ UNCHANGED <<extfunc, entity, rexts, used_exts, recv_calls>>

Next ==
    \/ \E req \in GlobalRegs : gnutls_ext_register(req)
    \/ \E role \in {GNUTLS_CLIENT, GNUTLS_SERVER} : gnutls_init(role)
    \/ \E req \in SessionRegs : gnutls_session_ext_register(req)
    \/ \E msg \in Msgs, pt \in Filters, data \in Blocks :
           \E bad \in 0..Len(data) : _gnutls_parse_extensions(msg, pt, data, bad)
    \/ \E msg \in Msgs, pt \in Filters, sb \in [1..MaxSends -> SendOutcomes] :
           _gnutls_gen_extensions(msg, pt, sb)
    \/ caller_continues

Spec == Init /\ [][Next]_vars

(* The session data table on its own: the built-in table is the one of  *)
(* start-up, and the extensions of a session store and drop their data.  *)
\* the internal ids the table calls are made with
TableIds == 0..GNUTLS_EXTENSION_MAX_VALUE
\* the value an extension stores for itself
OwnPriv == 1
\* the internal ids whose extension also drops its data
UnsetIds == {1}
\* the wire ids the data API is called with: two built-ins and 99
TableWires == {1, 16, 99}

TableNext ==
    \/ \E role \in {GNUTLS_CLIENT, GNUTLS_SERVER} : gnutls_init(role)
    \/ \E id \in TableIds : _gnutls_ext_set_session_data(id, OwnPriv)
    \/ \E id \in UnsetIds : _gnutls_ext_unset_session_data(id)
    \/ \E tls_id \in TableWires, data \in Privs : gnutls_ext_set_data(tls_id, data)
    \/ \E tls_id \in TableWires : gnutls_ext_get_data(tls_id)
    \/ caller_continues

TableSpec == Init /\ [][TableNext]_vars

(* Resumption: a client session with a small catalog advertises, stores   *)
(* live data (max_record_size its own, the others through the data API),  *)
(* packs, and unpacks stored blobs.                                       *)
\* longest blob the model unpacks, in records
MaxRecs == 2
\* the internal ids the records of an unpacked blob name: 1 and 4 may have
\* an unpack_func, 2 has none, 3 has no descriptor
BlobIds == {1, 2, 3, 4}
\* a record: the id, the declared size, and as many body cells; and one
\* record of alpn that declares two cells
BlobRecs ==
    { << id, size >> \o [k \in 1..size |-> 1] : id \in BlobIds, size \in 0..1 }
        \cup { << 1, 2, 1, 1 >> }

\* the well-formed records that lead a longer blob: one of alpn, one of 100
LeadRecs == { << 1, 1, 1 >>, << 4, 0 >> }

RECURSIVE Concat(_)
Concat(ss) == IF ss = <<>> THEN <<>> ELSE Head(ss) \o Concat(Tail(ss))

\* the blobs unpacked: the empty one, a bare count 1, and up to MaxRecs
\* records of which every one but the last is a leading record
UnpackBlobs ==
    { << 0 >>, << 1 >> } \cup
    { << Len(ls) + 1 >> \o Concat(ls) \o rec :
          ls \in UNION { [1..n -> LeadRecs] : n \in 0..(MaxRecs - 1) },
          rec \in BlobRecs }

\* the wire ids data is stored for: alpn or its override, and 100
ResumeWires == {16, 100}

ResumeNext ==
    \/ \E req \in {r \in GlobalRegs : r.name = "g100"} : gnutls_ext_register(req)
    \/ gnutls_init(GNUTLS_CLIENT)
    \/ \E req \in {r \in SessionRegs : r.name = "s16o"} :
           gnutls_session_ext_register(req)
    \/ \E sb \in [1..MaxSends -> SendOutcomes] :
           _gnutls_gen_extensions(CLIENT_HELLO, GNUTLS_EXT_ANY, sb)
    \/ _gnutls_ext_set_session_data(0, OwnPriv)
    \/ \E tls_id \in ResumeWires, data \in Privs : gnutls_ext_set_data(tls_id, data)
    \/ \E pbad \in {-1, 1} : _gnutls_ext_pack(pbad)
    \/ \E packed \in UnpackBlobs, ubad \in {-1, 0} : _gnutls_ext_unpack(packed, ubad)
    \/ caller_continues

ResumeSpec == Init /\ [][ResumeNext]_vars

(* Registration on its own: the process registers extensions until the   *)
(* internal ids run out, then a session is created and registers its own. *)
\* further calls of gnutls_ext_register, for wire ids 101 and 102
MoreGlobalRegs ==
    { [name |-> "g101", id |-> 101, parse_type |-> GNUTLS_EXT_TLS,
       recv_func |-> "g101_recv", send_func |-> "g101_send",
       deinit_func |-> NULLFN, pack_func |-> NULLFN, unpack_func |-> NULLFN],
      [name |-> "g102", id |-> 102, parse_type |-> GNUTLS_EXT_TLS,
       recv_func |-> "g102_recv", send_func |-> "g102_send",
       deinit_func |-> NULLFN, pack_func |-> NULLFN, unpack_func |-> NULLFN] }

RegNext ==
    \/ \E req \in GlobalRegs \cup MoreGlobalRegs : gnutls_ext_register(req)
    \/ \E role \in {GNUTLS_CLIENT, GNUTLS_SERVER} : gnutls_init(role)
    \/ \E req \in SessionRegs : gnutls_session_ext_register(req)
    \/ caller_continues

RegSpec == Init /\ [][RegNext]_vars

(* Lookup by wire id: a session parses blocks that carry the wire id of   *)
(* the first built-in.                                                    *)
\* the wire ids of these blocks: max_record_size, alpn, and 99
LookupWires == {1, 16, 99}

LookupBlocks == UNION { [1..n -> LookupWires] : n \in 1..MaxTLVs }

LookupNext ==
    \/ \E role \in {GNUTLS_CLIENT, GNUTLS_SERVER} : gnutls_init(role)
    \/ \E req \in {r \in SessionRegs : r.name = "s16o"} :
           gnutls_session_ext_register(req)
    \/ \E msg \in Msgs, pt \in Filters, data \in LookupBlocks :
           \E bad \in 0..Len(data) : _gnutls_parse_extensions(msg, pt, data, bad)
    \/ \E tls_id \in LookupWires : gnutls_ext_get_data(tls_id)
    \/ caller_continues

LookupSpec == Init /\ [][LookupNext]_vars

(* Lifetime of private data: two extensions store, replace and drop live  *)
(* data, stored blobs are unpacked, and the session frees its data.       *)
\* the internal ids that store live data: alpn, which has a deinit_func,
\* and dumbfw, which has none
LifeIds == {1, 2}
\* the values stored: NULL and two pointers
LifeData == {0} \cup Privs
\* the blobs unpacked: one record of alpn, and two records of alpn
LifeBlobs == { << 1, 1, 1, 1 >>, << 2, 1, 1, 1, 1, 1, 1 >> }

\* the number of leading slots the walk fills before it stops storing
MaxLifeSlots == 2
\* slot MaxLifeSlots has never been written
LifeRoom == ext_data[MaxLifeSlots] = EmptySlot

LifeNext ==
    \/ gnutls_init(GNUTLS_CLIENT)
    \/ \E id \in LifeIds, data \in LifeData : LifeRoom /\ _gnutls_ext_set_session_data(id, data)
    \/ \E id \in LifeIds : LifeRoom /\ _gnutls_ext_unset_session_data(id)
    \/ \E packed \in LifeBlobs : LifeRoom /\ _gnutls_ext_unpack(packed, -1)
    \/ _gnutls_ext_free_session_data
    \/ caller_continues

LifeSpec == Init /\ [][LifeNext]_vars

(* A handshake between two sessions of this engine.  The state holds one  *)
(* session at a time: while the server session runs, the client session   *)
(* is kept aside in last.client and is put back when the reply arrives.   *)
\* the wire ids of the TLVs of an emitted block, in order
WiresOf(out) == [k \in 1..Len(out) |-> out[k].tls_id]

\* the steps of a handshake that is under way
HsSteps == {"hs_hello_delivered", "hs_server_parsed", "hs_server_replied", "hs_reply_delivered"}

\* the CLIENT_HELLO block emitted by the client reaches a server session,
\* which has no overlay and an empty bitset
hs_deliver_hello ==
    /\ last.op = "emit" /\ last.msg = CLIENT_HELLO /\ last.ret = GNUTLS_E_SUCCESS
    /\ entity = GNUTLS_CLIENT
    /\ entity' = GNUTLS_SERVER
    /\ rexts' = <<>>
    /\ used_exts' = {}
    /\ recv_calls' = [g \in 0..GNUTLS_EXTENSION_MAX_VALUE |-> 0]
    /\ last' = [op |-> "hs_hello_delivered", ch |-> WiresOf(last.out),
                client |-> [rexts |-> rexts, used_exts |-> used_exts, recv_calls |-> recv_calls]]
    /\ UNCHANGED <<extfunc, ext_data>>

\* the server's _gnutls_parse_extensions(CLIENT_HELLO, GNUTLS_EXT_ANY) on
\* the block received; every recv_func succeeds
hs_server_parse ==
    /\ last.op = "hs_hello_delivered"
    /\ \E r \in { _gnutls_extv_parse([msg |-> CLIENT_HELLO, parse_type |-> GNUTLS_EXT_ANY, bad |-> 0], last.ch, 1, used_exts, <<>>) } :
          /\ used_exts' = r.used
          /\ recv_calls' = CountCalls(recv_calls, r.recv)
          /\ last' = [op |-> "hs_server_parsed", ch |-> last.ch, client |-> last.client,
                      ret |-> r.ret, kind |-> r.kind]
    /\ UNCHANGED <<extfunc, entity, rexts, ext_data>>

\* the server's _gnutls_gen_extensions(TLS12_SERVER_HELLO, GNUTLS_EXT_ANY)
hs_server_reply(sb) ==
    /\ last.op = "hs_server_parsed" /\ last.ret = GNUTLS_E_SUCCESS
    /\ \E r \in { gen_walk([msg |-> TLS12_SERVER_HELLO, parse_type |-> GNUTLS_EXT_ANY, sb |-> sb], 1, used_exts, 0, <<>>, <<>>) } :
          /\ used_exts' = r.used
          /\ last' = [op |-> "hs_server_replied", ch |-> last.ch, client |-> last.client,
                      ret |-> r.ret, sh |-> WiresOf(r.out)]
    /\ UNCHANGED <<extfunc, entity, rexts, ext_data, recv_calls>>

\* the reply block reaches the client session
hs_deliver_reply ==
    /\ last.op = "hs_server_replied" /\ last.ret = GNUTLS_E_SUCCESS
    /\ entity' = GNUTLS_CLIENT
    /\ rexts' = last.client.rexts
    /\ used_exts' = last.client.used_exts
    /\ recv_calls' = last.client.recv_calls
    /\ last' = [op |-> "hs_reply_delivered", ch |-> last.ch, sh |-> last.sh]
    /\ UNCHANGED <<extfunc, ext_data>>

\* the client's _gnutls_parse_extensions(TLS12_SERVER_HELLO, GNUTLS_EXT_ANY)
\* on the reply; every recv_func succeeds
hs_client_parse ==
    /\ last.op = "hs_reply_delivered"
    /\ \E r \in { _gnutls_extv_parse([msg |-> TLS12_SERVER_HELLO, parse_type |-> GNUTLS_EXT_ANY, bad |-> 0], last.sh, 1, used_exts, <<>>) } :
          /\ used_exts' = r.used
          /\ last' = [op |-> "hs_client_parse", ch |-> last.ch, sh |-> last.sh,
                      used0 |-> used_exts, ret |-> r.ret, kind |-> r.kind,
                      at |-> r.at, recv |-> r.recv]
    /\ UNCHANGED <<extfunc, entity, rexts, ext_data, recv_calls>>

HandshakeNext ==
    \/ \E req \in {r \in GlobalRegs : r.name = "g100"} : gnutls_ext_register(req)
    \/ gnutls_init(GNUTLS_CLIENT)
    \/ \E req \in SessionRegs : gnutls_session_ext_register(req)
    \/ \E sb \in [1..MaxSends -> SendOutcomes] : entity = GNUTLS_CLIENT /\ used_exts = {} /\ _gnutls_gen_extensions(CLIENT_HELLO, GNUTLS_EXT_ANY, sb)
    \/ hs_deliver_hello
    \/ hs_server_parse
    \/ \E sb \in [1..MaxSends -> SendOutcomes] : hs_server_reply(sb)
    \/ hs_deliver_reply
    \/ hs_client_parse
    \/ last.op \notin HsSteps /\ caller_continues

HandshakeSpec == Init /\ [][HandshakeNext]_vars

(* ============================== claims ================================= *)
\* the TLV indices of the last parsed block
TLVs == 1..Len(last.data)

\* the recv_func of no descriptor was called for TLV i of the last block
NoRecvFor(i) == \A k \in 1..Len(last.recv) : last.recv[k].tlv # i

\* the last parse failed at TLV i or before it, and if at i then with kind
FailsAt(i, kind) ==
    /\ last.ret # GNUTLS_E_SUCCESS
    /\ last.at \in 1..i
    /\ last.at = i => last.kind = kind

\* C1: in a parse on a client, a TLV whose wire id resolves to a non-zero
\* internal id that is not set in the advertisement bitset makes the parse
\* fail with UNSOLICITED_EXTENSION (when the parse gets to that TLV), and
\* the recv of no descriptor is invoked for that TLV, under every filter
\* and validity mask.
C1_UnsolicitedRejected ==
    (last.op = "parse" /\ entity = GNUTLS_CLIENT) =>
        \A i \in TLVs :
            LET id == tls_id_to_gid(last.data[i]) IN
            (id # 0 /\ id \notin last.used0) =>
                /\ FailsAt(i, "UNSOLICITED_EXTENSION")
                /\ NoRecvFor(i)

\* a client parsed a block whose first TLV was advertised and dispatched
\* and whose second TLV is known but was never advertised
C1_Witness ==
    /\ last.op = "parse"
    /\ entity = GNUTLS_CLIENT
    /\ last.kind = "UNSOLICITED_EXTENSION"
    /\ last.at = 2
    /\ Len(last.recv) = 1

\* C2: validity gating.  A parse called with msg invokes recv only of
\* descriptors whose validity mask holds msg, and fails with
\* ILLEGAL_EXTENSION_FOR_MESSAGE at a TLV that passed the unknown,
\* unsolicited and lookup steps and whose descriptor is not valid for msg;
\* an emit called with msg invokes send only of descriptors valid for msg.
C2_ValidityGating ==
    /\ last.op = "parse" =>
        /\ \A k \in 1..Len(last.recv) : last.msg \in last.recv[k].ext.validity
        /\ \A i \in TLVs :
            LET id == tls_id_to_gid(last.data[i])
                d == _gnutls_ext_ptr(id, last.parse_type)
            IN (/\ id # 0
                /\ entity = GNUTLS_CLIENT => id \in last.used0
                /\ d # NULL
                /\ d.recv_func # NULLFN
                /\ last.msg \notin d.validity) =>
                    /\ FailsAt(i, "ILLEGAL_EXTENSION_FOR_MESSAGE")
                    /\ NoRecvFor(i)
    /\ last.op = "emit" =>
        \A k \in 1..Len(last.sent) : last.msg \in last.sent[k].ext.validity

\* a parse stopped at the second TLV, whose descriptor has a recv and is not
\* valid for the message, after the first TLV was dispatched
C2_Witness ==
    /\ last.op = "parse"
    /\ last.kind = "ILLEGAL_EXTENSION_FOR_MESSAGE"
    /\ last.at = 2
    /\ Len(last.recv) = 1

\* the send of the descriptor at position pos of the walk was invoked
SentAt(pos) == \E k \in 1..Len(last.sent) : last.sent[k].pos = pos

\* the send invoked for position pos left a TLV in the output block
Advertised(pos) ==
    \E k \in 1..Len(last.sent) :
        last.sent[k].pos = pos /\ last.sent[k].oc \in {"data", "ret0"}

\* C3: client double-emit suppression.  When an overlay descriptor and a
\* built-in carry the same wire id and an emit on a client invoked the
\* overlay's send, which left its TLV in the block, the built-in's send is
\* skipped and the block holds exactly one TLV for that wire id, with the
\* overlay's payload.
C3_ClientNoDoubleEmit ==
    (last.op = "emit" /\ entity = GNUTLS_CLIENT /\ last.ret = GNUTLS_E_SUCCESS) =>
        \A i \in 1..Len(rexts), j \in 1..Len(extfunc) :
            (rexts[i].tls_id = extfunc[j].tls_id /\ Advertised(i)) =>
                /\ ~SentAt(Len(rexts) + j)
                /\ Cardinality({n \in 1..Len(last.out) :
                                   last.out[n].tls_id = rexts[i].tls_id}) = 1
                /\ \A n \in 1..Len(last.out) :
                       last.out[n].tls_id = rexts[i].tls_id =>
                           last.out[n].body \in {rexts[i].send_func, ""}

\* C4: a successful registration gives the new descriptor an internal id
\* above every internal id held in the built-in tier and in the session's
\* overlay, so no two descriptors a session sees share an internal id.
C4_InternalIdsUnique ==
    LET all == rexts \o extfunc IN
    /\ \A i, j \in 1..Len(all) : i # j => all[i].gid # all[j].gid
    /\ (last.op = "gnutls_session_ext_register" /\ last.ret = GNUTLS_E_SUCCESS) =>
           \A i \in 2..Len(all) : all[i].gid < rexts[Len(rexts)].gid
    /\ (last.op = "gnutls_ext_register" /\ last.ret = GNUTLS_E_SUCCESS) =>
           \A i \in 1..(Len(extfunc) - 1) :
               extfunc[i].gid < extfunc[Len(extfunc)].gid

\* C5: in a parse on a server, a TLV whose descriptor is found with a recv
\* and is valid for the message, and whose internal id is already set in
\* the bitset, makes the parse fail with DUPLICATE_EXTENSION without a recv
\* call; every recv call is for an id that was not yet set and is set
\* afterwards, and a server session calls recv at most once per id.
C5_ServerDuplicate ==
    /\ entity = GNUTLS_SERVER => \A g \in DOMAIN recv_calls : recv_calls[g] <= 1
    /\ (last.op = "parse" /\ entity = GNUTLS_SERVER) =>
        /\ \A k \in 1..Len(last.recv) :
               /\ last.recv[k].ext.gid \notin last.used0
               /\ last.recv[k].ext.gid \in used_exts
        /\ \A i \in TLVs :
            LET id == tls_id_to_gid(last.data[i])
                d == _gnutls_ext_ptr(id, last.parse_type)
            IN (/\ id # 0
                /\ d # NULL
                /\ d.recv_func # NULLFN
                /\ last.msg \in d.validity
                /\ id \in last.used0) =>
                    /\ FailsAt(i, "DUPLICATE_EXTENSION")
                    /\ NoRecvFor(i)

\* a server parse failed on a TLV whose internal id an earlier parse of the
\* session had set
C5_Witness ==
    /\ last.op = "parse"
    /\ entity = GNUTLS_SERVER
    /\ last.kind = "DUPLICATE_EXTENSION"
    /\ tls_id_to_gid(last.data[last.at]) \in last.used0
    /\ \E g \in DOMAIN recv_calls : recv_calls[g] = 1

\* C6: an emit on a server invokes send only of descriptors whose internal
\* id is set in the advertisement bitset, and leaves the bitset as it was.
C6_ServerEmitSolicitedOnly ==
    (last.op = "emit" /\ entity = GNUTLS_SERVER) =>
        /\ \A k \in 1..Len(last.sent) : last.sent[k].ext.gid \in last.used0
        /\ used_exts = last.used0

\* a server emit invoked a send while another descriptor with a send, valid
\* for the message, stayed silent because the client had not advertised it
C6_Witness ==
    /\ last.op = "emit"
    /\ entity = GNUTLS_SERVER
    /\ Len(last.sent) >= 1
    /\ \E j \in 1..Len(extfunc) :
           /\ extfunc[j].send_func # NULLFN
           /\ last.msg \in extfunc[j].validity
           /\ extfunc[j].gid \notin last.used0

\* C7: once a session-level registration with the override flag has put a
\* descriptor for a built-in's wire id into the overlay, a parse dispatches
\* a TLV with that wire id to the overlay descriptor's recv only, and the
\* wire id resolves to the overlay's internal id, the key of the data API.
C7_OverrideDispatch ==
    \A i \in 1..Len(rexts) :
        (\E j \in 1..Len(extfunc) : extfunc[j].tls_id = rexts[i].tls_id) =>
            /\ tls_id_to_gid(rexts[i].tls_id) = rexts[i].gid
            /\ last.op = "parse" =>
                   \A k \in 1..Len(last.recv) :
                       last.recv[k].tls_id = rexts[i].tls_id =>
                           /\ last.recv[k].ext = rexts[i]
                           /\ \A j \in 1..Len(extfunc) :
                                  last.recv[k].ext.recv_func # extfunc[j].recv_func

\* a parse dispatched a TLV to an overlay descriptor that overrides a
\* built-in with a recv of its own
C7_Witness ==
    /\ last.op = "parse"
    /\ \E k \in 1..Len(last.recv), i \in 1..Len(rexts), j \in 1..Len(extfunc) :
           /\ last.recv[k].ext = rexts[i]
           /\ last.recv[k].tls_id = extfunc[j].tls_id
           /\ extfunc[j].tls_id = rexts[i].tls_id
           /\ extfunc[j].recv_func # NULLFN

\* C8: a session-level registration returns ALREADY_REGISTERED when the
\* wire id is a built-in's and the override flag is absent, when that
\* built-in cannot be overridden, and when the overlay already carries the
\* wire id; a registration that returns it changes neither tier, nor the
\* state table, nor the bitset.
C8_SessionRegisterRejects ==
    [][ last'.op = "gnutls_session_ext_register" =>
          LET req == last'.req
              k == FirstWithTlsId(extfunc, req.id)
          IN /\ (k # 0 /\ ~req.override) =>
                    last'.ret = GNUTLS_E_ALREADY_REGISTERED
             /\ (k # 0 /\ extfunc[k].cannot_be_overriden) =>
                    last'.ret = GNUTLS_E_ALREADY_REGISTERED
             /\ (\E i \in 1..Len(rexts) : rexts[i].tls_id = req.id) =>
                    last'.ret = GNUTLS_E_ALREADY_REGISTERED
             /\ last'.ret = GNUTLS_E_ALREADY_REGISTERED =>
                    UNCHANGED <<rexts, extfunc, ext_data, used_exts>>
      ]_vars

\* a registration with the override flag was refused because the built-in
\* cannot be overridden, on a session whose bitset is not empty
C8_Witness ==
    /\ last.op = "gnutls_session_ext_register"
    /\ last.ret = GNUTLS_E_ALREADY_REGISTERED
    /\ last.req.override
    /\ \A i \in 1..Len(rexts) : rexts[i].tls_id # last.req.id
    /\ used_exts # {}

\* the descriptor at position pos of overlay ++ built-ins
WalkAt(pos) ==
    IF pos <= Len(rexts) THEN rexts[pos] ELSE extfunc[pos - Len(rexts)]

\* d passes the send-present, parse-class and validity filters of the emit
PassesFilters(d) ==
    /\ d.send_func # NULLFN
    /\ (last.parse_type = GNUTLS_EXT_ANY \/ d.parse_type = last.parse_type)
    /\ last.msg \in d.validity

\* the bitset lets the descriptor at pos through: on a server its id was
\* received; on a client its id was not set before the emit and no earlier
\* descriptor of the walk has set it
PassesBitset(pos) ==
    IF entity = GNUTLS_SERVER
    THEN WalkAt(pos).gid \in last.used0
    ELSE /\ WalkAt(pos).gid \notin last.used0
         /\ \A q \in 1..(pos - 1) :
                Advertised(q) => WalkAt(q).gid # WalkAt(pos).gid

C10_PaddingLast ==
    /\ extfunc[Len(extfunc)].name = "ext_mod_dumbfw"
    /\ last.op = "emit" =>
        \A k1, k2 \in 1..Len(last.sent) :
            (last.sent[k1].ext.name = "ext_mod_dumbfw" /\ k1 < k2) =>
                last.sent[k2].pos <= Len(rexts)

\* slot i of the table holds live or resumed data
Populated(i) == ext_data[i].set \/ ext_data[i].resumed_set

\* C12: at most one populated slot (live or resumed flag set) of the
\* session data table carries a given internal id, after any sequence of
\* set and unset operations.
C12_OneSlotPerId ==
    \A i, j \in Slots :
        (i # j /\ Populated(i) /\ Populated(j)) => ext_data[i].id # ext_data[j].id

\* some descriptor of the session's catalog carries wire id tls_id
KnownWire(tls_id) ==
    \/ \E i \in 1..Len(rexts) : rexts[i].tls_id = tls_id
    \/ \E j \in 1..Len(extfunc) : extfunc[j].tls_id = tls_id

\* C13: right after gnutls_ext_set_data(session, wire, p) for a wire id the
\* catalog knows, gnutls_ext_get_data(session, wire) succeeds and returns
\* p, whatever set and unset operations came before; for a wire id no
\* descriptor carries, set changes nothing and get returns
\* REQUESTED_DATA_NOT_AVAILABLE.
C13_SetThenGet ==
    /\ (last.op = "gnutls_ext_set_data" /\ KnownWire(last.tls_id)) =>
           ext_get_data(ext_data, last.tls_id)
               = [ret |-> GNUTLS_E_SUCCESS, data |-> last.data]
    /\ (last.op = "gnutls_ext_set_data" /\ ~KnownWire(last.tls_id)) =>
           ext_data = last.tab0
    /\ (last.op = "gnutls_ext_get_data" /\ ~KnownWire(last.tls_id)) =>
           last.ret = GNUTLS_E_REQUESTED_DATA_NOT_AVAILABLE

\* C20: a set of live data for an id that no slot carries, on a table
\* without a slot that has both flags clear, reports INTERNAL_ERROR to its
\* caller and leaves the table unchanged.
C20_FullTableReported ==
    (/\ last.op = "_gnutls_ext_set_session_data"
     /\ set_slot(last.tab0, last.id) = -1) =>
        /\ last.ret = GNUTLS_E_INTERNAL_ERROR
        /\ ext_data = last.tab0

\* a session data table as gnutls_init leaves it
FreshTable == [i \in Slots |-> EmptySlot]

\* the internal ids that carry resumed data in table tab
ResumedIds(tab) == { tab[i].id : i \in {j \in Slots : tab[j].resumed_set} }

\* the internal ids _gnutls_ext_pack writes a record for: advertised, with
\* a descriptor that has a pack_func, and with live data
PackedIds ==
    { i \in used_exts :
        /\ _gnutls_ext_ptr(i, GNUTLS_EXT_ANY) # NULL
        /\ _gnutls_ext_ptr(i, GNUTLS_EXT_ANY).pack_func # NULLFN
        /\ ext_get_session_data(ext_data, i).ret = GNUTLS_E_SUCCESS }

\* the advertised internal ids whose descriptor defines pack and unpack
PackUnpackIds ==
    { i \in used_exts :
        /\ _gnutls_ext_ptr(i, GNUTLS_EXT_ANY) # NULL
        /\ _gnutls_ext_ptr(i, GNUTLS_EXT_ANY).pack_func # NULLFN
        /\ _gnutls_ext_ptr(i, GNUTLS_EXT_ANY).unpack_func # NULLFN }

\* unpack(pack(L[id])) for the descriptor of internal id i: the result of
\* its unpack_func on what its pack_func wrote for the live value
UnpackOfPack(i) ==
    LET e == _gnutls_ext_ptr(i, GNUTLS_EXT_ANY)
    IN unpack_call(e.unpack_func,
                   pack_body(e.pack_func, ext_get_session_data(ext_data, i).data),
                   TRUE)

\* the descriptor of internal id i can read back exactly what it packs
ReadsBack(i) ==
    /\ _gnutls_ext_ptr(i, GNUTLS_EXT_ANY).unpack_func # NULLFN
    /\ UnpackOfPack(i).ok
    /\ UnpackOfPack(i).packed = <<>>

\* C11 as stated: after a successful pack, unpacking the blob into a fresh
\* table with the same catalog succeeds, the resumed ids are the advertised
\* ids whose descriptor defines pack and unpack, and each resumed value is
\* unpack(pack(L[id])).
C11_RoundTrip ==
    (last.op = "_gnutls_ext_pack" /\ last.ret = GNUTLS_E_SUCCESS) =>
        LET u == ext_unpack(FreshTable, last.packed, -1)
        IN /\ u.ret = GNUTLS_E_SUCCESS
           /\ ResumedIds(u.tab) = PackUnpackIds
           /\ \A i \in PackUnpackIds :
                  ext_get_resumed_session_data(u.tab, i) =
                      [ret |-> GNUTLS_E_SUCCESS, data |-> UnpackOfPack(i).data]

\* C11 amended: a successful pack writes one record for each advertised id
\* whose descriptor has a pack_func and whose live data is set, and no
\* other.  If every such descriptor reads back exactly what it packs,
\* unpacking the blob into a fresh table with the same catalog succeeds,
\* the resumed ids are exactly those ids and each resumed value is
\* unpack(pack(L[id])); otherwise the unpack fails.
C11_RoundTripOfPacked ==
    (last.op = "_gnutls_ext_pack" /\ last.ret = GNUTLS_E_SUCCESS) =>
        LET u == ext_unpack(FreshTable, last.packed, -1)
        IN /\ { last.ids[k] : k \in 1..Len(last.ids) } = PackedIds
           /\ Len(last.ids) = Cardinality(PackedIds)
           /\ IF \A i \in PackedIds : ReadsBack(i)
              THEN /\ u.ret = GNUTLS_E_SUCCESS
                   /\ ResumedIds(u.tab) = PackedIds
                   /\ \A i \in PackedIds :
                          ext_get_resumed_session_data(u.tab, i) =
                              [ret |-> GNUTLS_E_SUCCESS,
                               data |-> UnpackOfPack(i).data]
              ELSE u.ret # GNUTLS_E_SUCCESS

\* a pack of two records, of alpn with value 2 and of extension 100, that
\* unpacks into a fresh table
C11_Witness ==
    /\ last.op = "_gnutls_ext_pack"
    /\ last.ret = GNUTLS_E_SUCCESS
    /\ last.packed = << 2, 1, 1, 2, 4, 0 >>
    /\ ext_unpack(FreshTable, last.packed, -1).ret = GNUTLS_E_SUCCESS
    /\ ext_get_resumed_session_data(
           ext_unpack(FreshTable, last.packed, -1).tab, 1).data = 2

RECURSIVE RecStart(_, _)
\* the index in blob packed of the id of record k (records count from 0),
\* as the declared sizes place it; Len(packed) + 1 when the blob ends
\* before it
RecStart(packed, k) ==
    IF k = 0 THEN IF Len(packed) >= 2 THEN 2 ELSE Len(packed) + 1
    ELSE LET s == RecStart(packed, k - 1)
         IN IF s + 1 > Len(packed) THEN Len(packed) + 1
            ELSE IF s + 2 + packed[s + 1] > Len(packed) THEN Len(packed) + 1
            ELSE s + 2 + packed[s + 1]

\* record k of the blob has its id and its size in the blob
RecInBlob(packed, k) == RecStart(packed, k) + 1 <= Len(packed)

\* the descriptor record k names, NULL when the session has none
RecExt(packed, k) == _gnutls_ext_ptr(packed[RecStart(packed, k)], GNUTLS_EXT_ANY)

\* record k names an internal id with no descriptor or with no unpack_func
RecNoUnpack(packed, k) ==
    RecExt(packed, k) = NULL \/ RecExt(packed, k).unpack_func = NULLFN

\* what the unpack_func of record k does on the blob after the record's
\* size
RecUnpack(packed, k) ==
    unpack_call(RecExt(packed, k).unpack_func,
                SubSeq(packed, RecStart(packed, k) + 2, Len(packed)), TRUE)

\* the unpack_func of record k succeeds and consumes a number of cells
\* different from the declared size
RecWrongSize(packed, k) ==
    /\ ~RecNoUnpack(packed, k)
    /\ RecUnpack(packed, k).ok
    /\ (Len(packed) - (RecStart(packed, k) + 1)) - Len(RecUnpack(packed, k).packed)
           # packed[RecStart(packed, k) + 1]

\* C19: _gnutls_ext_unpack that stops at a record naming an internal id
\* with no descriptor or with no unpack_func, or at a record whose
\* unpack_func succeeded but consumed a size different from the declared
\* one, returns GNUTLS_E_PARSING_ERROR and leaves the table as the earlier
\* records made it (the record's value is not installed); and an unpack
\* that succeeds has met no such record.
C19_UnpackParsingError ==
    last.op = "_gnutls_ext_unpack" =>
        /\ (/\ last.at >= 0
            /\ RecInBlob(last.packed, last.at)
            /\ \/ RecNoUnpack(last.packed, last.at)
               \/ (last.ubad # last.at /\ RecWrongSize(last.packed, last.at)))
           => /\ last.ret = GNUTLS_E_PARSING_ERROR
              /\ ext_data = ext_unpack(last.tab0, << last.at >> \o Tail(last.packed),
                                       last.ubad).tab
              /\ \A k \in 1..Len(last.log) : last.log[k].slot = -1 => k = last.at + 1
        /\ last.ret = GNUTLS_E_SUCCESS =>
              \A k \in 0..(Head(last.packed) - 1) :
                  /\ RecInBlob(last.packed, k)
                  /\ ~RecNoUnpack(last.packed, k)
                  /\ ~RecWrongSize(last.packed, k)

\* the second record of a blob declares one cell for extension 100, whose
\* unpack_func reads none: the first record is installed, the second not
C19_Witness ==
    /\ last.op = "_gnutls_ext_unpack"
    /\ last.packed = << 2, 1, 1, 1, 4, 1, 1 >>
    /\ last.at = 1
    /\ last.why = "SIZE"
    /\ last.ret = GNUTLS_E_PARSING_ERROR
    /\ ext_get_resumed_session_data(ext_data, 1).ret = GNUTLS_E_SUCCESS
    /\ ext_get_resumed_session_data(ext_data, 4).ret = GNUTLS_E_INVALID_REQUEST

\* every TLV of block data carries a wire id no descriptor of the catalog
\* carries
AllUnknown(data) == \A i \in 1..Len(data) : ~KnownWire(data[i])

\* C14: a parse of a block in which every TLV carries a wire id unknown to
\* the catalog returns success on a client and on a server, calls no
\* recv_func, and leaves the advertisement bitset and the session data
\* table unchanged.
C14_IdempotentSkip ==
    [][ (last'.op = "parse" /\ AllUnknown(last'.data)) =>
            /\ last'.ret = GNUTLS_E_SUCCESS
            /\ last'.recv = <<>>
            /\ used_exts' = used_exts
            /\ ext_data' = ext_data
            /\ recv_calls' = recv_calls ]_vars

\* a client that advertised parses a block of two TLVs of wire id 99
C14_Witness ==
    /\ last.op = "parse"
    /\ entity = GNUTLS_CLIENT
    /\ last.data = << 99, 99 >>
    /\ last.used0 # {}
    /\ last.ret = GNUTLS_E_SUCCESS
    /\ used_exts = last.used0

\* the internal id after the largest one held in tab, and at least
\* GNUTLS_EXTENSION_MAX + 1
NextId(tab) ==
    LET S == { tab[i].gid + 1 : i \in 1..Len(tab) } \cup { GNUTLS_EXTENSION_MAX + 1 }
    IN CHOOSE m \in S : \A x \in S : x <= m

\* every descriptor of both tiers has an internal id of the bitset, and the
\* built-in table leaves room for its terminating NULL
IdsInRange ==
    /\ \A i \in 1..Len(extfunc) : extfunc[i].gid \in 0..GNUTLS_EXTENSION_MAX_VALUE
    /\ \A i \in 1..Len(rexts) : rexts[i].gid \in 0..GNUTLS_EXTENSION_MAX_VALUE
    /\ Len(extfunc) <= MAX_EXT_TYPES - 1

\* a registration that finds the internal ids used up, or (process-wide)
\* the built-in table full, fails; a failed registration changes no tier
FullRegistrationFails ==
    /\ (/\ last'.op = "gnutls_ext_register"
        /\ \/ NextId(extfunc) > GNUTLS_EXTENSION_MAX_VALUE
           \/ Len(extfunc) >= MAX_EXT_TYPES - 1)
       => last'.ret # GNUTLS_E_SUCCESS
    /\ (/\ last'.op = "gnutls_session_ext_register"
        /\ \A i \in 1..Len(extfunc) : extfunc[i].tls_id # last'.req.id
        /\ NextId(extfunc \o rexts) > GNUTLS_EXTENSION_MAX_VALUE)
       => last'.ret # GNUTLS_E_SUCCESS
    /\ (/\ last'.op \in {"gnutls_ext_register", "gnutls_session_ext_register"}
        /\ last'.ret # GNUTLS_E_SUCCESS)
       => (extfunc' = extfunc /\ rexts' = rexts)

ReqOf(e) == CHOOSE r \in SessionRegs : r.name = e.name

\* no wire id twice in a tier; a wire id of both tiers is an override of
\* an overridable built-in
WireIdsUnique ==
    /\ \A i, j \in 1..Len(extfunc) : i # j => extfunc[i].tls_id # extfunc[j].tls_id
    /\ \A i, j \in 1..Len(rexts) : i # j => rexts[i].tls_id # rexts[j].tls_id
    /\ \A i \in 1..Len(rexts), j \in 1..Len(extfunc) :
           rexts[i].tls_id = extfunc[j].tls_id =>
               (ReqOf(rexts[i]).override /\ ~extfunc[j].cannot_be_overriden)

\* gnutls_ext_register of a wire id a built-in carries
BuiltinCollisionRefused ==
    (/\ last'.op = "gnutls_ext_register"
     /\ \E i \in 1..Len(extfunc) : extfunc[i].tls_id = last'.req.id)
    => (last'.ret = GNUTLS_E_ALREADY_REGISTERED /\ extfunc' = extfunc)

TLVsOfGid(g) == { i \in 1..Len(last.data) : tls_id_to_gid(last.data[i]) = g }

\* C17: after a successful parse on a server whose advertisement bitset
\* was empty, every internal id of the bitset is the id of exactly one TLV
\* of the block, and the descriptor of that id is found under the filter
\* of the parse, has a recv_func and is valid for the message; TLVs that
\* are skipped or unknown set no bit.
C17_ServerBitsFromTLVs ==
    (/\ last.op = "parse"
     /\ entity = GNUTLS_SERVER
     /\ last.used0 = {}
     /\ last.ret = GNUTLS_E_SUCCESS) =>
        \A g \in used_exts :
            /\ Cardinality(TLVsOfGid(g)) = 1
            /\ _gnutls_ext_ptr(g, last.parse_type) # NULL
            /\ _gnutls_ext_ptr(g, last.parse_type).recv_func # NULLFN
            /\ last.msg \in _gnutls_ext_ptr(g, last.parse_type).validity

\* a server parses a block of dumbfw, which has no recv_func, and alpn:
\* only the bit of alpn is set
C17_Witness ==
    /\ last.op = "parse"
    /\ entity = GNUTLS_SERVER
    /\ last.used0 = {}
    /\ last.ret = GNUTLS_E_SUCCESS
    /\ last.data = << 21, 16 >>
    /\ used_exts = {1}

\* the internal ids of the descriptors whose send_func was called in the
\* emit and appended payload or returned GNUTLS_E_INT_RET_0
SentIds ==
    { last.sent[k].ext.gid :
        k \in { n \in 1..Len(last.sent) : last.sent[n].oc \in {"data", "ret0"} } }

\* C18: after an emit on a client whose advertisement bitset was empty, an
\* internal id is in the bitset if and only if the send_func of a
\* descriptor with that id was called and appended at least one byte or
\* returned GNUTLS_E_INT_RET_0; a descriptor with no send_func, of another
\* parse class or not valid for the message has no send_func call, and a
\* send_func that appends nothing and returns another value sets no bit.
C18_ClientBitsFromSends ==
    (/\ last.op = "emit"
     /\ entity = GNUTLS_CLIENT
     /\ last.used0 = {}) =>
        /\ used_exts = SentIds
        /\ \A k \in 1..Len(last.sent) :
               /\ last.sent[k].ext.send_func # NULLFN
               /\ last.parse_type \in {GNUTLS_EXT_ANY, last.sent[k].ext.parse_type}
               /\ last.msg \in last.sent[k].ext.validity

\* a client emits its three built-ins; the send_func of the first appends
\* nothing and returns 0, so its bit stays clear
C18_Witness ==
    /\ last.op = "emit"
    /\ entity = GNUTLS_CLIENT
    /\ last.used0 = {}
    /\ Len(last.sent) = 3
    /\ last.sent[1].oc = "none"
    /\ last.sent[1].ext.gid = 0
    /\ used_exts = {1, 2}

\* C27: on either role, a parse of a block in which a wire id of the
\* catalog appears in two TLVs fails, and no parse calls the recv_func of a
\* descriptor twice, also on a client whose bitset contains the id.
C27_DuplicateFatal ==
    last.op = "parse" =>
        /\ \A k1, k2 \in 1..Len(last.recv) :
               k1 # k2 => last.recv[k1].ext.gid # last.recv[k2].ext.gid
        /\ (\E i, j \in 1..Len(last.data) :
                /\ i < j
                /\ last.data[i] = last.data[j]
                /\ KnownWire(last.data[i]))
           => last.ret # GNUTLS_E_SUCCESS

\* the parse classes a lookup is made with
ParseClasses == {GNUTLS_EXT_ANY, GNUTLS_EXT_APPLICATION, GNUTLS_EXT_TLS}

\* the overlay descriptors, and the built-in descriptors, of internal id id
OverlayOf(id) == { rexts[i] : i \in { n \in 1..Len(rexts) : rexts[n].gid = id } }
BuiltinOf(id) == { extfunc[j] : j \in { n \in 1..Len(extfunc) : extfunc[n].gid = id } }

\* C26: _gnutls_ext_ptr(session, id, pc) returns an overlay descriptor of
\* that internal id if there is one, otherwise a built-in of that id,
\* otherwise NULL; when pc is not ANY and the descriptor found is of
\* another class it returns NULL and does not go on to the other tier, so a
\* parse with filter pc calls no recv_func of a descriptor of another class.
C26_LookupByInternalId ==
    /\ \A id \in 0..GNUTLS_EXTENSION_MAX_VALUE, pc \in ParseClasses :
           LET r == _gnutls_ext_ptr(id, pc)
               any == _gnutls_ext_ptr(id, GNUTLS_EXT_ANY)
           IN /\ OverlayOf(id) # {} => any \in OverlayOf(id)
              /\ (OverlayOf(id) = {} /\ BuiltinOf(id) # {}) => any \in BuiltinOf(id)
              /\ (OverlayOf(id) = {} /\ BuiltinOf(id) = {}) => any = NULL
              /\ r = IF any # NULL /\ (pc = GNUTLS_EXT_ANY \/ any.parse_type = pc)
                     THEN any ELSE NULL
    /\ (last.op = "parse" /\ last.parse_type # GNUTLS_EXT_ANY) =>
           \A k \in 1..Len(last.recv) :
               last.recv[k].ext.parse_type = last.parse_type

\* extension 100 is registered with class TLS; a parse under the
\* APPLICATION filter of a block with wire ids 100 and 16 calls alpn_recv only
C26_Witness ==
    /\ last.op = "parse"
    /\ last.parse_type = GNUTLS_EXT_APPLICATION
    /\ last.data = << 100, 16 >>
    /\ KnownWire(100)
    /\ last.ret = GNUTLS_E_SUCCESS
    /\ Len(last.recv) = 1
    /\ last.recv[1].tls_id = 16

\* the first descriptor that carries wire id tls_id, the overlay before the
\* built-ins (only used for a wire id the catalog knows)
FirstOfWire(tls_id) ==
    LET all == rexts \o extfunc
        S == { i \in 1..Len(all) : all[i].tls_id = tls_id }
    IN all[CHOOSE i \in S : \A j \in S : i <= j]

\* C25: tls_id_to_gid returns the internal id of the first descriptor that
\* carries the wire id, the overlay before the built-ins, and 0 only when
\* no descriptor of either tier carries it; so a successful parse on a
\* server has called the recv_func for every TLV whose wire id belongs to
\* a descriptor that passes the filter, has a recv_func and is valid for
\* the message.
C25_WireToInternalId ==
    /\ \A w \in LookupWires :
           /\ KnownWire(w) => tls_id_to_gid(w) = FirstOfWire(w).gid
           /\ tls_id_to_gid(w) = 0 => ~KnownWire(w)
    /\ (last.op = "parse" /\ entity = GNUTLS_SERVER /\ last.ret = GNUTLS_E_SUCCESS) =>
           \A i \in 1..Len(last.data) :
               (/\ KnownWire(last.data[i])
                /\ FirstOfWire(last.data[i]).recv_func # NULLFN
                /\ last.parse_type \in {GNUTLS_EXT_ANY,
                                        FirstOfWire(last.data[i]).parse_type}
                /\ last.msg \in FirstOfWire(last.data[i]).validity)
               => \E k \in 1..Len(last.recv) : last.recv[k].tlv = i

\* the advertised internal ids whose descriptor is found and has a
\* pack_func
PackIds ==
    { i \in used_exts :
        /\ _gnutls_ext_ptr(i, GNUTLS_EXT_ANY) # NULL
        /\ _gnutls_ext_ptr(i, GNUTLS_EXT_ANY).pack_func # NULLFN }

\* the record of internal id i: the id, the size of the body, the body
RecordOf(i) ==
    LET body == pack_body(_gnutls_ext_ptr(i, GNUTLS_EXT_ANY).pack_func,
                          ext_get_session_data(ext_data, i).data)
    IN << i, Len(body) >> \o body

RECURSIVE RecordsOf(_)
\* the records of the internal ids of S, in ascending order of the ids
RecordsOf(S) ==
    IF S = {} THEN <<>>
    ELSE LET m == CHOOSE x \in S : \A y \in S : x <= y
         IN RecordOf(m) \o RecordsOf(S \ {m})

\* a step of _gnutls_ext_pack changes neither the bitset nor the table
PackChangesNothing ==
    last'.op = "_gnutls_ext_pack" => (used_exts' = used_exts /\ ext_data' = ext_data)

\* C24 as stated: a successful pack writes the count and then, in
\* ascending order of the ids, one record for each advertised id whose
\* descriptor is found and has a pack_func; the count is the number of
\* records, an empty body is still written and counted, and pack changes
\* neither the bitset nor the table.
C24_PackFormat ==
    /\ [] ((last.op = "_gnutls_ext_pack" /\ last.ret = GNUTLS_E_SUCCESS) =>
              last.packed = << Cardinality(PackIds) >> \o RecordsOf(PackIds))
    /\ [][PackChangesNothing]_vars

\* C24 amended: the ids of the records are the advertised ids whose
\* descriptor is found, has a pack_func and has live data set; the rest as
\* stated.
C24_PackFormatOfPacked ==
    /\ [] ((last.op = "_gnutls_ext_pack" /\ last.ret = GNUTLS_E_SUCCESS) =>
              last.packed = << Cardinality(PackedIds) >> \o RecordsOf(PackedIds))
    /\ [][PackChangesNothing]_vars

\* a pack of one record, of extension 100 whose pack_func writes nothing,
\* while alpn is advertised and has no live data
C24_Witness ==
    /\ last.op = "_gnutls_ext_pack"
    /\ last.ret = GNUTLS_E_SUCCESS
    /\ last.packed = << 1, 4, 0 >>
    /\ 1 \in used_exts

\* C28: when _gnutls_ext_unpack returns, with success or with an error,
\* every value an unpack_func produced is installed in the resumed table or
\* has been passed to a deinit_func; none is dropped, also when the size
\* consumed differs from the declared one, when the table is full or when
\* a later record fails.
C28_UnpackOwnership ==
    last.op = "_gnutls_ext_unpack" =>
        \A k \in 1..Len(last.log) :
            \/ last.log[k].data = 0
            \/ last.log[k].slot # -1
            \/ \E n \in 1..Len(last.deinit) : last.deinit[n].priv = last.log[k].data

\* the descriptor of internal id id, as the data-table functions look it up
DescOf(id) == _gnutls_ext_ptr(id, GNUTLS_EXT_ANY)

\* slot i of table tab holds p as live data of id
HoldsLive(tab, i, id, p) == tab[i].set /\ tab[i].id = id /\ tab[i].priv = p

\* C21: when _gnutls_ext_set_session_data(id, p2) is called while
\* _gnutls_ext_get_session_data(id) returns p1, the deinit_func of the
\* descriptor is called on p1, and afterwards no slot holds p1 as live data
\* of id, whatever was set and unset for other ids before.
C21_ReplaceReleasesOld ==
    (/\ last.op = "_gnutls_ext_set_session_data"
     /\ ext_get_session_data(last.tab0, last.id).ret = GNUTLS_E_SUCCESS) =>
        LET p1 == ext_get_session_data(last.tab0, last.id).data
        IN /\ last.deinit = deinit_call(DescOf(last.id), p1)
           /\ p1 # last.data => \A i \in Slots : ~HoldsLive(ext_data, i, last.id, p1)

\* C22: after _gnutls_ext_unset_session_data(id) the getter of id returns
\* GNUTLS_E_REQUESTED_DATA_NOT_AVAILABLE and the deinit_func has been called
\* on the live pointer held before; the resumed flag and pointer of every
\* slot and all data of other ids are unchanged, and an unpack, which sets
\* resumed data, changes no live flag and no live pointer.
C22_UnsetClearsLive ==
    /\ last.op = "_gnutls_ext_unset_session_data" =>
          /\ ext_get_session_data(ext_data, last.id).ret = GNUTLS_E_REQUESTED_DATA_NOT_AVAILABLE
          /\ ext_get_session_data(last.tab0, last.id).ret = GNUTLS_E_SUCCESS =>
                last.deinit = deinit_call(DescOf(last.id), ext_get_session_data(last.tab0, last.id).data)
          /\ \A i \in Slots :
                /\ ext_data[i].resumed_set = last.tab0[i].resumed_set
                /\ ext_data[i].resumed_priv = last.tab0[i].resumed_priv
                /\ last.tab0[i].id # last.id => ext_data[i] = last.tab0[i]
    /\ last.op = "_gnutls_ext_unpack" =>
          \A i \in Slots :
                /\ ext_data[i].set = last.tab0[i].set
                /\ ext_data[i].priv = last.tab0[i].priv

\* the deinit_func calls there can be: a function of the catalog on a
\* non-null pointer
DeinitCalls == [fn : ({extfunc[k].deinit_func : k \in DOMAIN extfunc} \cup {rexts[k].deinit_func : k \in DOMAIN rexts}) \ {NULLFN}, priv : LifeData \ {0}]

\* the number of live and resumed values of table tab that are owed the
\* call c: set, non-null, and of an id whose descriptor has this deinit_func
Owed(tab, c) ==
    Cardinality({i \in Slots : tab[i].set /\ deinit_call(DescOf(tab[i].id), tab[i].priv) = << c >>})
        + Cardinality({i \in Slots : tab[i].resumed_set /\ deinit_call(DescOf(tab[i].id), tab[i].resumed_priv) = << c >>})

\* the number of values the last operation installed that are owed the
\* call c: the one of a set that found a slot, those of the records an
\* unpack installed
Installed(c) ==
    IF last.op = "_gnutls_ext_set_session_data"
    THEN IF last.slot # -1 /\ deinit_call(DescOf(last.id), last.data) = << c >> THEN 1 ELSE 0
    ELSE IF last.op = "_gnutls_ext_unpack"
    THEN Cardinality({k \in 1..Len(last.log) : last.log[k].slot # -1 /\ deinit_call(DescOf(last.log[k].id), last.log[k].data) = << c >>})
    ELSE 0

\* the number of times the last operation made the call c
Released(c) == Cardinality({k \in 1..Len(last.deinit) : last.deinit[k] = c})

\* the operations on the session data table
TableOps == {"_gnutls_ext_set_session_data", "_gnutls_ext_unset_session_data", "_gnutls_ext_unpack", "_gnutls_ext_free_session_data"}

\* every table operation releases exactly what stops being held
Conserved ==
    last.op \in TableOps =>
        /\ \A k \in 1..Len(last.deinit) : last.deinit[k] \in DeinitCalls
        /\ \A c \in DeinitCalls : Owed(last.tab0, c) + Installed(c) = Owed(ext_data, c) + Released(c)

\* after _gnutls_ext_free_session_data no slot is set or resumed_set
AllFreed ==
    last.op = "_gnutls_ext_free_session_data" =>
        \A i \in Slots : ~ext_data[i].set /\ ~ext_data[i].resumed_set

\* only the table operations change the table
OnlyTableOps == last'.op \notin TableOps => ext_data' = ext_data

\* C23: over any sequence of set, unset and unpack operations ending in
\* _gnutls_ext_free_session_data, the deinit_func is called exactly once on
\* every non-null value installed as live or resumed data of an id whose
\* descriptor has a deinit_func, never on a null or absent value and never
\* twice; after the free no slot is set or resumed_set.
C23_DeinitExactlyOnce ==
    /\ [] (Conserved /\ AllFreed)
    /\ [] (entity = "none" => \A c \in DeinitCalls : Owed(ext_data, c) = 0)
    /\ [][OnlyTableOps]_vars

\* a free of a table in which one slot holds both a live and a resumed
\* value of alpn: it makes at least two deinit_func calls
C23_Witness ==
    /\ last.op = "_gnutls_ext_free_session_data"
    /\ Len(last.deinit) >= 2
    /\ \E i \in Slots : last.tab0[i].set /\ last.tab0[i].resumed_set /\ last.tab0[i].id = 1
    /\ \A i \in Slots : ~ext_data[i].set /\ ~ext_data[i].resumed_set

\* C29: when a client emits its CLIENT_HELLO block, a server parses it and
\* emits its reply, and the client parses the reply, the client's parse
\* does not fail as unsolicited: every wire id of the reply is a wire id
\* of the client's block and its internal id in the client session is in
\* the client's used_exts, also when the client session has an overlay
\* entry overriding a built-in.
C29_ReplyIsSolicited ==
    last.op = "hs_client_parse" =>
        /\ last.kind # "UNSOLICITED_EXTENSION"
        /\ \A k \in 1..Len(last.sh) :
              /\ \E n \in 1..Len(last.ch) : last.ch[n] = last.sh[k]
              /\ tls_id_to_gid(last.sh[k]) \in last.used0

====
